---- MODULE Spec2Model ----
(***************************************************************************)
(* SyncWatcher runtime coordinator (src-tauri/src/lib.rs): sync slot       *)
(* admission, the FIFO queue of watch-triggered syncs, the queue           *)
(* dispatcher, the sync execution wrapper and watcher removal.             *)
(*                                                                         *)
(* Every spawned async task is a record in the bag `procs`; one action is  *)
(* one lock-protected section of the code together with the lock-free      *)
(* code that follows it up to the next await.                              *)
(*                                                                         *)
(* Spec, SpecRun and SpecLive follow the coordinator and see a run from    *)
(* outside; SpecSync follows a run through execute_sync_internal and the   *)
(* copy loop of sync_engine/engine.rs; SpecReview follows the conflict     *)
(* review sessions and their commands.                                     *)
(*                                                                         *)
(* The layers below the coordinator have a specification each and leave    *)
(* the coordinator's variables alone: SpecSafeCopy is one safe copy of the *)
(* conflict review (rename the target to a backup, then copy);             *)
(* SpecEngine is compare_dirs, sync_files and get_target_newer_conflicts   *)
(* over a source and a target tree, and SpecTouched the same with a        *)
(* writer outside the program; SpecOrphan is delete_orphan_paths on a      *)
(* file system with symbolic links; SpecDebounce and SpecWatcher are the   *)
(* debounce thread of watcher.rs; SpecValidate is runtime_set_config with  *)
(* validate_runtime_tasks.                                                 *)
(*                                                                         *)
(* The configuration has specifications of its own: SpecConfig is          *)
(* runtime_set_config step by step with reconcile_runtime_watchers;        *)
(* SpecSerial is two runtime_set_config calls at once; SpecWatchers adds   *)
(* start_watch, stop_watch and the volume events; SpecReconcile is the     *)
(* reconcile pass made twice over one configuration; SpecBoot is the       *)
(* initial enqueue of the watch tasks with manual runs in flight;          *)
(* SpecPurge is a configuration that drops a task whose sync is queued or  *)
(* running; SpecEvents is a watch event against a run of the same task,    *)
(* under fair scheduling; SpecResolve is two resolve_conflict_items        *)
(* batches at once.                                                        *)
(***************************************************************************)
EXTENDS Bags, FiniteSets, Integers, Sequences, TLC

\* Task ids.  The frontend starts manual syncs for ManualTasks and puts
\* WatchTasks into the runtime configuration as watch_mode tasks; "t2" is
\* both.
Tasks == {"t1", "t2", "t3"}

ManualTasks == {"t1", "t2"}

WatchTasks == {"t2", "t3"}

NoTask == "none"

\* const RUNTIME_SYNC_MAX_CONCURRENCY: usize = 2;
RUNTIME_SYNC_MAX_CONCURRENCY == 2

\* Bounds of the model.
MaxManual == 1              \* manual start_sync calls in flight
MaxWatchInFlight == 2       \* watch-triggered requests in flight (callback, queue entry, run)
MaxPendingDispatchers == 1  \* spawned dispatcher tasks that have not run yet
MaxDispatchers == 2        \* dispatcher tasks that have started and not yet ended
MaxStopCalls == 1           \* stop_watch calls in flight
max_lines == 1              \* LogManager.max_lines: log entries kept
MaxDiffs == 3               \* diffs of one run
MaxConflicts == 1           \* target-newer candidates of one run
MaxSessions == 2            \* conflict_review_seq values handed out
MaxRequests == 2            \* requests of one resolve_conflict_items batch
MaxBusy == 1                \* sync runs and resolve_conflict_items batches in flight together
BackupNameAttempts == 1     \* backup names tried by RenameThenCopy (20 in the code)

VARIABLES
    runtime_config,             \* ids of the watch_mode tasks of AppState.runtime_config
    watchers,                   \* keys of WatcherManager.watchers
    runtime_watch_sources,      \* keys of AppState.runtime_watch_sources
    runtime_initial_watch_bootstrapped,
    syncing_tasks,              \* AppState.syncing_tasks
    runtime_sync_queue,         \* AppState.runtime_sync_queue
    queued_sync_tasks,          \* AppState.queued_sync_tasks
    runtime_dispatcher_running, \* AppState.runtime_dispatcher_running
    slot_permit,                \* the stored permit of runtime_sync_slot_released
    cancel_tokens,              \* keys of AppState.cancel_tokens
    ui_queued,                  \* ids whose last queue-state event said queued=true
    enqueue_order,              \* history: the watch-triggered requests that were queued and have
                                \* not started or been dropped, in the order of their first enqueue
    procs,                      \* bag of the async tasks in flight
    last,                       \* what the last step returned to its caller, if it refused
    auto_unmount,               \* ids of the configured tasks that have auto_unmount set
    log,                        \* LogManager.system_logs: the last max_lines entries
    conflict_review_sessions,   \* AppState.conflict_review_sessions
    conflict_review_seq,        \* AppState.conflict_review_seq
    target_newer_conflicts,     \* per task: the candidates its run in flight has found
    diffs,                      \* per task: what its run in flight did to each diff
    unmount_requests,           \* per task: DiskMonitor::unmount_volume calls for its source
    reply,                      \* what the last conflict review command returned
    emitted,                    \* the events the last conflict review step emitted
    file_ops,                   \* the file operations the last conflict review step made
    disk,                       \* safe copy: what each path of the target directory holds
    disk_before,                \* history: disk when the safe copy began
    safe_copy,                  \* the RenameThenCopy arm in flight: its position and locals
    source_tree,                \* sync engine: what each relative path holds under the source
    target_tree,                \* sync engine: what each relative path holds under the target
    checksum_mode,              \* SyncOptions.checksum_mode of the task
    engine,                     \* the run of the engine in flight: its position and locals
    fs,                         \* orphan deletion: what each absolute path holds
    orphan,                     \* the delete_orphan_files command in flight: its position and locals
    channel,                    \* watcher: the events in the sync_channel of a task's watcher
    debounce,                   \* the debounce thread of that watcher: its position and locals
    watching,                   \* that watcher: its token, its sender, whether the map has it
    on_change,                  \* history: the calls of the watcher's change callback
    burst,                      \* history: the events the thread received since the last quiet
    payload_tasks,              \* validation: the tasks of the payload of runtime_set_config
    stored_tasks,               \* the tasks of AppState.runtime_config
    set_config_returned,        \* what runtime_set_config returned
    volume_mounted,             \* configuration: whether the volume of the UUID source is mounted
    unwatchable,                \* the paths on which notify cannot place a watch
    stored_exclusion_sets,      \* the exclusion sets of AppState.runtime_config
    watch_source_paths,         \* the values of AppState.runtime_watch_sources
    config_calls,               \* the runtime_set_config calls in flight: position and locals
    config_returns              \* history: the runtime_set_config calls that returned

\* The state of the application: coordinator, runs and conflict review.
app_vars == <<runtime_config, watchers, runtime_watch_sources,
              runtime_initial_watch_bootstrapped, syncing_tasks, runtime_sync_queue,
              queued_sync_tasks, runtime_dispatcher_running, slot_permit,
              cancel_tokens, ui_queued, enqueue_order, procs, last, auto_unmount, log,
              conflict_review_sessions, conflict_review_seq, target_newer_conflicts,
              diffs, unmount_requests, reply, emitted, file_ops>>

\* The state of the parts beneath it, each with a specification of its own
\* further down: the files a safe copy works on, the trees the sync engine
\* works on, the file system orphan deletion works on, the debouncer of a
\* task's watcher, the tasks of a configuration and their paths.
safe_copy_vars == <<disk, disk_before, safe_copy>>

engine_vars == <<source_tree, target_tree, checksum_mode, engine>>

orphan_vars == <<fs, orphan>>

debounce_vars == <<channel, debounce, watching, on_change, burst>>

validate_vars == <<payload_tasks, stored_tasks, set_config_returned>>

config_vars == <<volume_mounted, unwatchable, stored_exclusion_sets, watch_source_paths,
                 config_calls, config_returns>>

lower_vars == <<safe_copy_vars, engine_vars, orphan_vars, debounce_vars, validate_vars,
                config_vars>>

vars == <<app_vars, lower_vars>>

watch_vars == <<runtime_config, watchers, runtime_watch_sources,
                runtime_initial_watch_bootstrapped>>

queue_vars == <<runtime_sync_queue, queued_sync_tasks>>

\* What a run works on inside its slot and what the conflict review works
\* on.  The coordinator actions do not look inside a run: they leave these
\* alone, and the runs of Spec, SpecRun and SpecLive are runs seen from the
\* coordinator.  SpecSync and SpecReview below are the runs and the review
\* seen from inside.
run_vars == <<auto_unmount, log, conflict_review_sessions, conflict_review_seq,
              target_newer_conflicts, diffs, unmount_requests>>

\* A step that is not one of a conflict review command: it returns nothing
\* to the review window, emits none of its events and makes none of its
\* file operations.
NoReply == [op |-> "none"]

Silent ==
    /\ reply' = NoReply /\ emitted' = {} /\ file_ops' = <<>>
    /\ UNCHANGED lower_vars

\* The parts beneath the application at rest, as the specifications of the
\* application leave them.
safe_copy_rest == disk = <<>> /\ disk_before = <<>> /\ safe_copy = [pc |-> "rest"]

engine_rest ==
    /\ source_tree = <<>>
    /\ target_tree = <<>>
    /\ checksum_mode = FALSE
    /\ engine = [pc |-> "rest"]

----------------------------------------------------------------------------
\* Async tasks.  k: which function the task runs; t: its task id; pc: the
\* await it is at; o: the origin of the request; r: the result carried;
\* n: a number read earlier (the dispatcher's current_syncing, a run's
\* cancelled token).

P(k, t, pc, o, r, n) == [k |-> k, t |-> t, pc |-> pc, o |-> o, r |-> r, n |-> n]

One(p) == SetToBag({p})

Spawn(b, p) == b (+) One(p)

Kill(b, p) == b (-) One(p)

Move(b, p, q) == (b (-) One(p)) (+) One(q)

Live == BagToSet(procs)

\* Number of tasks in bag b whose record is in S.
Count(b, S) == BagCardinality([p \in S \cap DOMAIN b |-> b[p]])

\* What function op returned for task t.
Out(op, t, res) == [op |-> op, t |-> t, res |-> res]

Quiet == Out("none", NoTask, "none")

\* The history without its first entry for task_id.
RECURSIVE Forget(_, _)
Forget(order, task_id) ==
    IF order = <<>> THEN <<>>
    ELSE IF Head(order) = task_id THEN Tail(order)
         ELSE <<Head(order)>> \o Forget(Tail(order), task_id)

\* emit_runtime_sync_queue_state(app, task_id, queued, reason), as the
\* frontend sees it.
emit_runtime_sync_queue_state(ui, task_id, queued) ==
    IF queued THEN ui \cup {task_id} ELSE ui \ {task_id}

----------------------------------------------------------------------------
\* Sync slots.

\* acquire_sync_slot that reports success whether or not the id was a member.
acquire_sync_slot_always(syncing, task_id) ==
    [ok |-> TRUE, syncing |-> syncing \cup {task_id}]

\* HashSet::insert: true iff the id was not yet a member.
acquire_sync_slot(syncing, task_id) ==
    [ok |-> task_id \notin syncing, syncing |-> syncing \cup {task_id}]

\* acquire_runtime_sync_slot with the capacity test off by one (> for >=).
acquire_runtime_sync_slot_off_by_one(syncing, task_id) ==
    IF task_id \in syncing
    THEN [res |-> "AlreadySyncing", syncing |-> syncing]
    ELSE IF Cardinality(syncing) > RUNTIME_SYNC_MAX_CONCURRENCY
         THEN [res |-> "CapacityReached", syncing |-> syncing]
         ELSE [res |-> "Acquired", syncing |-> syncing \cup {task_id}]

\* acquire_runtime_sync_slot without the capacity test.
acquire_runtime_sync_slot_uncapped(syncing, task_id) ==
    IF task_id \in syncing
    THEN [res |-> "AlreadySyncing", syncing |-> syncing]
    ELSE [res |-> "Acquired", syncing |-> syncing \cup {task_id}]

acquire_runtime_sync_slot(syncing, task_id) ==
    IF task_id \in syncing
    THEN [res |-> "AlreadySyncing", syncing |-> syncing]
    ELSE IF Cardinality(syncing) >= RUNTIME_SYNC_MAX_CONCURRENCY
         THEN [res |-> "CapacityReached", syncing |-> syncing]
         ELSE [res |-> "Acquired", syncing |-> syncing \cup {task_id}]

\* HashSet::remove: true iff the id was a member.
release_sync_slot(syncing, task_id) ==
    [removed |-> task_id \in syncing, syncing |-> syncing \ {task_id}]

\* tokio::sync::Notify::notify_one: a registered waiter is woken, otherwise
\* one permit is stored (never more than one).
Waiter == P("disp", NoTask, "waiting", "none", "none", 0)

Woken == P("disp", NoTask, "len", "none", "none", 0)

notify_one(b, permit) ==
    IF BagIn(Waiter, b)
    THEN [procs |-> Move(b, Waiter, Woken), permit |-> permit]
    ELSE [procs |-> b, permit |-> TRUE]

\* schedule_runtime_sync_dispatcher: spawn one dispatcher task.  Spawned
\* tasks that have not run yet are all alike; beyond MaxPendingDispatchers
\* of them a further one is not counted.
Scheduled == P("disp", NoTask, "start", "none", "none", 0)

schedule_runtime_sync_dispatcher(b) ==
    IF CopiesIn(Scheduled, b) >= MaxPendingDispatchers THEN b ELSE Spawn(b, Scheduled)

----------------------------------------------------------------------------
\* The sync execution wrapper, execute_sync_internal.

IsRun(p) == p.k = "run"

IsManualRun(p) == p.k = "run" /\ p.o = "manual"

IsWatchRun(p) == p.k = "run" /\ p.o = "watch"

\* The numbers of runs in flight in the bag b.
Runs(b) == Count(b, {p \in DOMAIN b : IsRun(p)})

ManualRuns(b) == Count(b, {p \in DOMAIN b : IsManualRun(p)})

WatchRuns(b) == Count(b, {p \in DOMAIN b : IsWatchRun(p)})

\* A run holds its slot from the acquisition to release_sync_slot.
RunsOf(t) == Count(procs, {p \in DOMAIN procs : IsRun(p) /\ p.t = t})

\* A refusal that runs the release of the exit path (release_sync_slot
\* without a wake-up is what is left of it for the syncing set).
refuse_and_release(syncing, task_id) == syncing \ {task_id}

\* execute_sync_internal returns Err("Task is already syncing") before
\* the block whose exit releases the slot: the syncing set after it.
refuse_already_syncing(syncing, task_id) == syncing

\* start_sync: the manual command; execute_sync_internal with
\* sync_slot_pre_acquired = false acquires the slot itself.
start_sync(t) ==
    /\ LET a == acquire_sync_slot(syncing_tasks, t)
       IN  IF ~a.ok
           THEN /\ last' = Out("start_sync", t, "Err(Task is already syncing)")
                /\ syncing_tasks' = refuse_already_syncing(syncing_tasks, t)
                /\ UNCHANGED procs
           ELSE /\ syncing_tasks' = a.syncing
                /\ procs' = Spawn(procs, P("run", t, "begin", "manual", "none", 0))
                /\ last' = Quiet
    /\ UNCHANGED run_vars
    /\ Silent
    /\ UNCHANGED <<watch_vars, queue_vars, runtime_dispatcher_running, slot_permit,
                   cancel_tokens, ui_queued, enqueue_order>>

\* release_sync_slot, then the caller's tail: start_sync returns the
\* result; runtime_sync_task emits runtime-sync-state {syncing=false} and
\* schedules the dispatcher.  The run's task p ends.
Released(p) ==
    LET rel == release_sync_slot(syncing_tasks, p.t)
        rest == Kill(procs, p)
        ntf == IF rel.removed THEN notify_one(rest, slot_permit)
               ELSE [procs |-> rest, permit |-> slot_permit]
    IN  /\ syncing_tasks' = rel.syncing
        /\ slot_permit' = ntf.permit
        /\ procs' = IF p.o = "watch"
                    THEN schedule_runtime_sync_dispatcher(ntf.procs)
                    ELSE ntf.procs
        /\ last' = Quiet

\* Path resolution and input validation succeed and the cancellation
\* token is registered.
execute_sync_begin(p) ==
    /\ p.k = "run" /\ p.pc = "begin"
    /\ cancel_tokens' = cancel_tokens \cup {p.t}
    /\ procs' = Move(procs, p, [p EXCEPT !.pc = "body"])
    /\ last' = Quiet
    /\ UNCHANGED run_vars
    /\ Silent
    /\ UNCHANGED <<watch_vars, queue_vars, syncing_tasks, runtime_dispatcher_running,
                   slot_permit, ui_queued, enqueue_order>>

\* Path resolution or input validation fails: the block is left before the
\* token exists, and the slot is released.
execute_sync_begin_failed(p) ==
    /\ p.k = "run" /\ p.pc = "begin"
    /\ Released(p)
    /\ UNCHANGED run_vars
    /\ Silent
    /\ UNCHANGED <<watch_vars, queue_vars, runtime_dispatcher_running, cancel_tokens,
                   ui_queued, enqueue_order>>

\* A scan error that leaves the function without release_sync_slot.
execute_sync_scan_failed_keeps_slot(p) ==
    /\ p.k = "run" /\ p.pc = "body"
    /\ procs' = Kill(procs, p)
    /\ last' = Quiet
    /\ UNCHANGED run_vars
    /\ Silent
    /\ UNCHANGED <<watch_vars, queue_vars, syncing_tasks, runtime_dispatcher_running,
                   slot_permit, cancel_tokens, ui_queued, enqueue_order>>

\* engine.target_newer_conflicts(..)?: a scan error leaves the block with
\* the token still registered, and the slot is released.
execute_sync_scan_failed(p) ==
    /\ p.k = "run" /\ p.pc = "body"
    /\ Released(p)
    /\ UNCHANGED run_vars
    /\ Silent
    /\ UNCHANGED <<watch_vars, queue_vars, runtime_dispatcher_running, cancel_tokens,
                   ui_queued, enqueue_order>>

\* tokio::select! over engine.sync_files and cancel_token.cancelled()
\* resolves, then tokens.remove(&task_id).
execute_sync_copy(p) ==
    /\ p.k = "run" /\ p.pc = "body"
    /\ \E res \in {"ok", "err", "cancelled"} :
          /\ res = "cancelled" => p.n = 1
          /\ procs' = Move(procs, p, [p EXCEPT !.pc = "release", !.r = res, !.n = 0])
    /\ cancel_tokens' = cancel_tokens \ {p.t}
    /\ last' = Quiet
    /\ UNCHANGED run_vars
    /\ Silent
    /\ UNCHANGED <<watch_vars, queue_vars, syncing_tasks, runtime_dispatcher_running,
                   slot_permit, ui_queued, enqueue_order>>

\* The result is logged and release_sync_slot runs.
execute_sync_release(p) ==
    /\ p.k = "run" /\ p.pc = "release"
    /\ Released(p)
    /\ UNCHANGED run_vars
    /\ Silent
    /\ UNCHANGED <<watch_vars, queue_vars, runtime_dispatcher_running, cancel_tokens,
                   ui_queued, enqueue_order>>

\* The whole block of execute_sync_internal on a path that registers and
\* removes the token (the copy ends Ok or Err), then release_sync_slot:
\* execute_sync_begin, execute_sync_copy and execute_sync_release as one
\* step.  Between the acquisition and the release a run touches no
\* coordinator state but cancel_tokens.
execute_sync_internal(p) ==
    /\ p.k = "run" /\ p.pc = "begin"
    /\ Released(p)
    /\ UNCHANGED run_vars
    /\ Silent
    /\ UNCHANGED <<watch_vars, queue_vars, runtime_dispatcher_running, cancel_tokens,
                   ui_queued, enqueue_order>>

\* cancel_operation: fires the token registered under the task id, if any,
\* and returns whether there was one.  The token in the map is the one of
\* the run that registered it last; a token left behind by an ended run
\* belongs to no run, and firing it reaches nobody.
cancel_operation_result(tokens, t) == t \in tokens

cancel_operation(t) ==
    /\ IF cancel_operation_result(cancel_tokens, t)
          /\ \E p \in Live : p.k = "run" /\ p.t = t /\ p.pc = "body"
       THEN \E p \in Live :
               /\ p.k = "run" /\ p.t = t /\ p.pc = "body"
               /\ procs' = Move(procs, p, [p EXCEPT !.n = 1])
       ELSE UNCHANGED procs
    /\ last' = Quiet
    /\ UNCHANGED run_vars
    /\ Silent
    /\ UNCHANGED <<watch_vars, queue_vars, syncing_tasks, runtime_dispatcher_running,
                   slot_permit, cancel_tokens, ui_queued, enqueue_order>>

----------------------------------------------------------------------------
\* The queue of watch-triggered syncs.

\* enqueue_runtime_sync_task without its first section.
enqueue_refused_never(syncing, task_id) == FALSE

\* enqueue_runtime_sync_task, first section: a syncing task is not queued.
enqueue_refused_syncing(syncing, task_id) == task_id \in syncing

\* HashSet::insert on queued_sync_tasks.
queued_set_insert(queued, task_id) ==
    [ok |-> task_id \notin queued, queued |-> queued \cup {task_id}]

\* VecDeque::push_back.
push_back(queue, task_id) == Append(queue, task_id)

\* A dequeue that takes the newest entry (pop_back).
pop_back(queue) ==
    IF queue = <<>> THEN [next |-> NoTask, queue |-> queue]
    ELSE [next |-> queue[Len(queue)], queue |-> SubSeq(queue, 1, Len(queue) - 1)]

\* VecDeque::pop_front.
pop_front(queue) ==
    IF queue = <<>> THEN [next |-> NoTask, queue |-> queue]
    ELSE [next |-> Head(queue), queue |-> Tail(queue)]

\* VecDeque::retain(|id| id != task_id).
retain_other(queue, task_id) == SelectSeq(queue, LAMBDA id : id # task_id)

IsWatchRequest(p) ==
    \/ p.k \in {"enq", "rst"}
    \/ p.k = "run" /\ p.o = "watch"
    \/ p.k = "disp" /\ p.pc = "unqueue"

WatchRequests(b) == Count(b, {p \in DOMAIN b : IsWatchRequest(p)})

RECURSIVE InitialToDo(_)
InitialToDo(S) ==
    IF S = {} THEN 0
    ELSE LET p == CHOOSE x \in S : TRUE
         IN  Len(p.r) + InitialToDo(S \ {p})

\* Requests for a dispatcher-started sync in flight: enqueue calls, queue
\* entries, the id the dispatcher has in hand, spawned runtime_sync_task
\* tasks and their runs, and the ids the initial enqueue has still to do.
WatchInFlight ==
    WatchRequests(procs) + Len(runtime_sync_queue)
        + InitialToDo({p \in Live : p.k = "boot"})

\* The change callback of a runtime-owned watcher (start_watch_internal):
\* spawns a task that enqueues the task id.
watch_callback(t) ==
    /\ t \in watchers
    /\ WatchInFlight < MaxWatchInFlight
    /\ procs' = Spawn(procs, P("enq", t, "check", "watch", "none", 0))
    /\ last' = Quiet
    /\ UNCHANGED run_vars
    /\ Silent
    /\ UNCHANGED <<watch_vars, queue_vars, syncing_tasks, runtime_dispatcher_running,
                   slot_permit, cancel_tokens, ui_queued, enqueue_order>>

\* The callers of enqueue_runtime_sync_task: the task a watch callback or
\* runtime_sync_task spawned for one id ("enq"), and
\* enqueue_initial_runtime_watch_syncs ("boot"), which goes through the
\* watch_mode tasks of the configuration (r: those still to do, the
\* current one first; n: enqueued_any).
IsEnqueuer(p) == p.k \in {"enq", "boot"}

\* The tasks in flight once enqueue_runtime_sync_task has returned `queued`
\* to its caller p: a caller that got true schedules the dispatcher, the
\* initial enqueue after its last id if any call returned true.
enqueue_returned(b, p, queued) ==
    IF p.k = "enq"
    THEN IF queued THEN schedule_runtime_sync_dispatcher(Kill(b, p)) ELSE Kill(b, p)
    ELSE LET enqueued_any == p.n = 1 \/ queued
             rest == Tail(p.r)
         IN  IF rest # <<>>
             THEN Move(b, p, [p EXCEPT !.t = Head(rest), !.r = rest, !.pc = "check",
                                       !.n = IF enqueued_any THEN 1 ELSE 0])
             ELSE IF enqueued_any THEN schedule_runtime_sync_dispatcher(Kill(b, p))
                  ELSE Kill(b, p)

\* The history once the request of task p is dropped: a request of a
\* watch callback has not been queued yet, one of runtime_sync_task has.
Dropped(p) == IF p.o = "rst" THEN Forget(enqueue_order, p.t) ELSE enqueue_order

enqueue_check(p) ==
    /\ IsEnqueuer(p) /\ p.pc = "check"
    /\ IF enqueue_refused_syncing(syncing_tasks, p.t)
       THEN /\ procs' = enqueue_returned(procs, p, FALSE)
            /\ enqueue_order' = Dropped(p)
            /\ last' = Out("enqueue_runtime_sync_task", p.t, "false (syncing)")
       ELSE /\ procs' = Move(procs, p, [p EXCEPT !.pc = "insert"])
            /\ last' = Quiet
            /\ UNCHANGED enqueue_order
    /\ UNCHANGED run_vars
    /\ Silent
    /\ UNCHANGED <<watch_vars, queue_vars, syncing_tasks, runtime_dispatcher_running,
                   slot_permit, cancel_tokens, ui_queued>>

enqueue_insert(p) ==
    /\ IsEnqueuer(p) /\ p.pc = "insert"
    /\ LET ins == queued_set_insert(queued_sync_tasks, p.t)
       IN  IF ~ins.ok
           THEN /\ procs' = enqueue_returned(procs, p, FALSE)
                /\ enqueue_order' = Dropped(p)
                /\ last' = Out("enqueue_runtime_sync_task", p.t, "false (queued)")
                /\ UNCHANGED queued_sync_tasks
           ELSE /\ queued_sync_tasks' = ins.queued
                /\ procs' = Move(procs, p, [p EXCEPT !.pc = "push"])
                /\ last' = Quiet
                /\ UNCHANGED enqueue_order
    /\ UNCHANGED run_vars
    /\ Silent
    /\ UNCHANGED <<watch_vars, runtime_sync_queue, syncing_tasks,
                   runtime_dispatcher_running, slot_permit, cancel_tokens, ui_queued>>

\* push_back, runtime-sync-queue-state {queued=true}, return true.
enqueue_push(p) ==
    /\ IsEnqueuer(p) /\ p.pc = "push"
    /\ runtime_sync_queue' = push_back(runtime_sync_queue, p.t)
    /\ procs' = enqueue_returned(procs, p, TRUE)
    /\ ui_queued' = emit_runtime_sync_queue_state(ui_queued, p.t, TRUE)
    /\ enqueue_order' = IF p.o = "rst" THEN enqueue_order ELSE Append(enqueue_order, p.t)
    /\ last' = Quiet
    /\ UNCHANGED run_vars
    /\ Silent
    /\ UNCHANGED <<watch_vars, queued_sync_tasks, syncing_tasks,
                   runtime_dispatcher_running, slot_permit, cancel_tokens>>

----------------------------------------------------------------------------
\* The dispatcher task spawned by schedule_runtime_sync_dispatcher.

should_wait_for_runtime_slot(has_queued, current_syncing) ==
    has_queued /\ current_syncing >= RUNTIME_SYNC_MAX_CONCURRENCY

\* A dispatcher that never reschedules itself after its loop.
should_reschedule_never(has_queued) == FALSE

should_reschedule_runtime_dispatcher(has_queued) == has_queued

\* A dispatcher that enters the loop without testing the flag.
dispatcher_should_start_always(running) == TRUE

\* The test-and-set of runtime_dispatcher_running under its mutex.
dispatcher_should_start(running) == ~running

Disp(pc, t, n) == P("disp", t, pc, "none", "none", n)

IsStartedDispatcher(p) == p.k = "disp" /\ p.pc # "start"

StartedDispatchers(b) == Count(b, {p \in DOMAIN b : IsStartedDispatcher(p)})

\* A dispatcher between `*running = true` and `*running = false`.
InDispatcherLoop(p) ==
    p.k = "disp" /\ p.pc \in {"len", "queue", "notified", "waiting", "pop", "unqueue", "clear"}

LoopDispatchers(b) == Count(b, {p \in DOMAIN b : InDispatcherLoop(p)})

dispatcher_start(p) ==
    /\ p = Scheduled
    /\ StartedDispatchers(procs) < MaxDispatchers
    /\ IF dispatcher_should_start(runtime_dispatcher_running)
       THEN /\ runtime_dispatcher_running' = TRUE
            /\ procs' = Move(procs, p, Disp("len", NoTask, 0))
       ELSE /\ procs' = Kill(procs, p)
            /\ UNCHANGED runtime_dispatcher_running
    /\ last' = Quiet
    /\ UNCHANGED run_vars
    /\ Silent
    /\ UNCHANGED <<watch_vars, queue_vars, syncing_tasks, slot_permit, cancel_tokens,
                   ui_queued, enqueue_order>>

\* current_syncing = syncing.len()
dispatcher_read_syncing(p) ==
    /\ p.k = "disp" /\ p.pc = "len"
    /\ procs' = Move(procs, p, Disp("queue", NoTask, Cardinality(syncing_tasks)))
    /\ last' = Quiet
    /\ UNCHANGED run_vars
    /\ Silent
    /\ UNCHANGED <<watch_vars, queue_vars, syncing_tasks, runtime_dispatcher_running,
                   slot_permit, cancel_tokens, ui_queued, enqueue_order>>

\* has_queued = !queue.is_empty(), then the loop's branch.
dispatcher_read_queue(p) ==
    /\ p.k = "disp" /\ p.pc = "queue"
    /\ LET has_queued == runtime_sync_queue # <<>>
       IN  procs' = Move(procs, p,
                IF should_wait_for_runtime_slot(has_queued, p.n)
                THEN Disp("notified", NoTask, 0)
                ELSE IF ~has_queued THEN Disp("clear", NoTask, 0)
                     ELSE Disp("pop", NoTask, 0))
    /\ last' = Quiet
    /\ UNCHANGED run_vars
    /\ Silent
    /\ UNCHANGED <<watch_vars, queue_vars, syncing_tasks, runtime_dispatcher_running,
                   slot_permit, cancel_tokens, ui_queued, enqueue_order>>

\* runtime_sync_slot_released.notified().await: a stored permit is
\* consumed at once, otherwise the task waits for notify_one.
dispatcher_notified(p) ==
    /\ p.k = "disp" /\ p.pc = "notified"
    /\ IF slot_permit
       THEN /\ slot_permit' = FALSE
            /\ procs' = Move(procs, p, Woken)
       ELSE /\ procs' = Move(procs, p, Waiter)
            /\ UNCHANGED slot_permit
    /\ last' = Quiet
    /\ UNCHANGED run_vars
    /\ Silent
    /\ UNCHANGED <<watch_vars, queue_vars, syncing_tasks, runtime_dispatcher_running,
                   cancel_tokens, ui_queued, enqueue_order>>

\* dequeue_runtime_sync_task, first section: queue.pop_front().
dispatcher_pop(p) ==
    /\ p.k = "disp" /\ p.pc = "pop"
    /\ LET d == pop_front(runtime_sync_queue)
       IN  /\ runtime_sync_queue' = d.queue
           /\ procs' = Move(procs, p,
                  IF d.next = NoTask THEN Disp("clear", NoTask, 0)
                  ELSE Disp("unqueue", d.next, 0))
    /\ last' = Quiet
    /\ UNCHANGED run_vars
    /\ Silent
    /\ UNCHANGED <<watch_vars, queued_sync_tasks, syncing_tasks,
                   runtime_dispatcher_running, slot_permit, cancel_tokens,
                   ui_queued, enqueue_order>>

\* dequeue_runtime_sync_task, second section: queued_set.remove(task_id);
\* then runtime-sync-queue-state {queued=false} and the spawn of
\* runtime_sync_task(task_id).
dispatcher_unqueue(p) ==
    /\ p.k = "disp" /\ p.pc = "unqueue"
    /\ queued_sync_tasks' = queued_sync_tasks \ {p.t}
    /\ procs' = Spawn(Move(procs, p, Disp("len", NoTask, 0)),
                      P("rst", p.t, "config", "watch", "none", 0))
    /\ ui_queued' = emit_runtime_sync_queue_state(ui_queued, p.t, FALSE)
    /\ last' = Quiet
    /\ UNCHANGED run_vars
    /\ Silent
    /\ UNCHANGED <<watch_vars, runtime_sync_queue, syncing_tasks,
                   runtime_dispatcher_running, slot_permit, cancel_tokens,
                   enqueue_order>>

\* After the loop: *running = false.
dispatcher_clear(p) ==
    /\ p.k = "disp" /\ p.pc = "clear"
    /\ runtime_dispatcher_running' = FALSE
    /\ procs' = Move(procs, p, Disp("recheck", NoTask, 0))
    /\ last' = Quiet
    /\ UNCHANGED run_vars
    /\ Silent
    /\ UNCHANGED <<watch_vars, queue_vars, syncing_tasks, slot_permit, cancel_tokens,
                   ui_queued, enqueue_order>>

\* The queue is read once more; a non-empty queue reschedules.
dispatcher_recheck(p) ==
    /\ p.k = "disp" /\ p.pc = "recheck"
    /\ procs' = IF should_reschedule_runtime_dispatcher(runtime_sync_queue # <<>>)
                THEN schedule_runtime_sync_dispatcher(Kill(procs, p))
                ELSE Kill(procs, p)
    /\ last' = Quiet
    /\ UNCHANGED run_vars
    /\ Silent
    /\ UNCHANGED <<watch_vars, queue_vars, syncing_tasks, runtime_dispatcher_running,
                   slot_permit, cancel_tokens, ui_queued, enqueue_order>>

----------------------------------------------------------------------------
\* runtime_sync_task: the run the dispatcher spawns for a dequeued id.

\* runtime_find_watch_task on a clone of the configuration.
runtime_sync_task_config(p) ==
    /\ p.k = "rst" /\ p.pc = "config"
    /\ IF p.t \in runtime_config
       THEN /\ procs' = Move(procs, p, [p EXCEPT !.pc = "sources"])
            /\ UNCHANGED enqueue_order
       ELSE /\ procs' = Kill(procs, p)
            /\ enqueue_order' = Forget(enqueue_order, p.t)
    /\ last' = Quiet
    /\ UNCHANGED run_vars
    /\ Silent
    /\ UNCHANGED <<watch_vars, queue_vars, syncing_tasks, runtime_dispatcher_running,
                   slot_permit, cancel_tokens, ui_queued>>

\* is_runtime_watch_task_active, first section: the source map.
runtime_sync_task_sources(p) ==
    /\ p.k = "rst" /\ p.pc = "sources"
    /\ IF p.t \in runtime_watch_sources
       THEN /\ procs' = Move(procs, p, [p EXCEPT !.pc = "watchers"])
            /\ UNCHANGED enqueue_order
       ELSE /\ procs' = Kill(procs, p)
            /\ enqueue_order' = Forget(enqueue_order, p.t)
    /\ last' = Quiet
    /\ UNCHANGED run_vars
    /\ Silent
    /\ UNCHANGED <<watch_vars, queue_vars, syncing_tasks, runtime_dispatcher_running,
                   slot_permit, cancel_tokens, ui_queued>>

\* is_runtime_watch_task_active, second section: the watcher manager.
runtime_sync_task_watchers(p) ==
    /\ p.k = "rst" /\ p.pc = "watchers"
    /\ IF p.t \in watchers
       THEN /\ procs' = Move(procs, p, [p EXCEPT !.pc = "acquire"])
            /\ UNCHANGED enqueue_order
       ELSE /\ procs' = Kill(procs, p)
            /\ enqueue_order' = Forget(enqueue_order, p.t)
    /\ last' = Quiet
    /\ UNCHANGED run_vars
    /\ Silent
    /\ UNCHANGED <<watch_vars, queue_vars, syncing_tasks, runtime_dispatcher_running,
                   slot_permit, cancel_tokens, ui_queued>>

\* match acquire_runtime_sync_slot(..): Acquired runs execute_sync_internal
\* with the slot pre-acquired, AlreadySyncing returns, CapacityReached
\* enqueues the id again.
runtime_sync_task_acquire(p) ==
    /\ p.k = "rst" /\ p.pc = "acquire"
    /\ LET a == acquire_runtime_sync_slot(syncing_tasks, p.t)
       IN  /\ syncing_tasks' = a.syncing
           /\ procs' = IF a.res = "Acquired"
                       THEN Move(procs, p, P("run", p.t, "begin", "watch", "none", 0))
                       ELSE IF a.res = "AlreadySyncing" THEN Kill(procs, p)
                       ELSE Move(procs, p, P("enq", p.t, "check", "rst", "none", 0))
           /\ enqueue_order' = IF a.res = "CapacityReached" THEN enqueue_order
                                ELSE Forget(enqueue_order, p.t)
           /\ last' = IF a.res = "Acquired" THEN Quiet
                      ELSE Out("acquire_runtime_sync_slot", p.t, a.res)
    /\ UNCHANGED run_vars
    /\ Silent
    /\ UNCHANGED <<watch_vars, queue_vars, runtime_dispatcher_running, slot_permit,
                   cancel_tokens, ui_queued>>

----------------------------------------------------------------------------
\* Watcher removal and configuration.

IsStop(p) == p.k = "stop"

StopCalls(b) == Count(b, {p \in DOMAIN b : IsStop(p)})

\* stop_watch, first section: sources.remove(&task_id).
stop_watch(t) ==
    /\ StopCalls(procs) < MaxStopCalls
    /\ runtime_watch_sources' = runtime_watch_sources \ {t}
    /\ procs' = Spawn(procs, P("stop", t, "queued", "none", "none", 0))
    /\ last' = Quiet
    /\ UNCHANGED run_vars
    /\ Silent
    /\ UNCHANGED <<runtime_config, watchers, runtime_initial_watch_bootstrapped,
                   queue_vars, syncing_tasks, runtime_dispatcher_running, slot_permit,
                   cancel_tokens, ui_queued, enqueue_order>>

\* queued.remove(&task_id)
stop_watch_queued(p) ==
    /\ p.k = "stop" /\ p.pc = "queued"
    /\ queued_sync_tasks' = queued_sync_tasks \ {p.t}
    /\ procs' = Move(procs, p, [p EXCEPT !.pc = "queue"])
    /\ last' = Quiet
    /\ UNCHANGED run_vars
    /\ Silent
    /\ UNCHANGED <<watch_vars, runtime_sync_queue, syncing_tasks,
                   runtime_dispatcher_running, slot_permit, cancel_tokens,
                   ui_queued, enqueue_order>>

\* queue.retain(|id| id != &task_id)
stop_watch_queue(p) ==
    /\ p.k = "stop" /\ p.pc = "queue"
    /\ runtime_sync_queue' = retain_other(runtime_sync_queue, p.t)
    /\ enqueue_order' = retain_other(enqueue_order, p.t)
    /\ procs' = Move(procs, p, [p EXCEPT !.pc = "watcher"])
    /\ last' = Quiet
    /\ UNCHANGED run_vars
    /\ Silent
    /\ UNCHANGED <<watch_vars, queued_sync_tasks, syncing_tasks,
                   runtime_dispatcher_running, slot_permit, cancel_tokens, ui_queued>>

\* manager.stop_watching(&task_id), then the two events.
stop_watch_watcher(p) ==
    /\ p.k = "stop" /\ p.pc = "watcher"
    /\ watchers' = watchers \ {p.t}
    /\ procs' = Kill(procs, p)
    /\ ui_queued' = emit_runtime_sync_queue_state(ui_queued, p.t, FALSE)
    /\ last' = Quiet
    /\ UNCHANGED run_vars
    /\ Silent
    /\ UNCHANGED <<runtime_config, runtime_watch_sources,
                   runtime_initial_watch_bootstrapped, queue_vars, syncing_tasks,
                   runtime_dispatcher_running, slot_permit, cancel_tokens,
                   enqueue_order>>

\* The orders in which a set of task ids can stand in the payload.
Orders(S) == {q \in [1..Cardinality(S) -> S] : \A i, j \in DOMAIN q : i # j => q[i] # q[j]}

\* enqueue_initial_runtime_watch_syncs as a task in flight, at its first id.
Boot(order) == P("boot", Head(order), "check", "boot", order, 0)

\* runtime_set_config with a valid payload.  The configuration is replaced
\* and reconcile_runtime_watchers starts the desired watchers that are
\* missing and stops the managed ones no longer desired, purging their
\* queue entries (one step).  The call that finds
\* runtime_initial_watch_bootstrapped unset sets it and goes on into
\* enqueue_initial_runtime_watch_syncs.
\*   order: the watch_mode tasks of the payload, in payload order;
\*   unmount: those of them that have auto_unmount set;
\*   fail_resolve: watchers whose start fails before the manager is touched;
\*   fail_watch: watchers whose start fails inside start_watching, after a
\*               watcher of the same id was stopped.
runtime_set_config(order, unmount, fail_resolve, fail_watch) ==
    LET desired == {order[i] : i \in DOMAIN order}
        to_start == {t \in desired : t \notin runtime_watch_sources \/ t \notin watchers}
        failed == to_start \cap (fail_resolve \cup fail_watch)
        started == to_start \ failed
        to_stop == runtime_watch_sources \ desired
        first == ~runtime_initial_watch_bootstrapped
    IN  /\ fail_resolve \cap fail_watch = {}
        /\ (fail_resolve \cup fail_watch) \subseteq to_start
        /\ unmount \subseteq desired
        /\ runtime_config' = desired
        /\ auto_unmount' = unmount
        /\ watchers' = ((watchers \cup started) \ (failed \cap fail_watch)) \ to_stop
        /\ runtime_watch_sources' = ((runtime_watch_sources \cup started) \ failed) \ to_stop
        /\ runtime_initial_watch_bootstrapped' = TRUE
        /\ queued_sync_tasks' = queued_sync_tasks \ to_stop
        /\ runtime_sync_queue' = SelectSeq(runtime_sync_queue, LAMBDA id : id \notin to_stop)
        /\ procs' = IF first /\ order # <<>> THEN Spawn(procs, Boot(order)) ELSE procs
        /\ ui_queued' = ui_queued \ to_stop
        /\ enqueue_order' = SelectSeq(enqueue_order, LAMBDA id : id \notin to_stop)
        /\ last' = Quiet
        /\ Silent
        /\ UNCHANGED <<syncing_tasks, runtime_dispatcher_running, slot_permit,
                       cancel_tokens, log, conflict_review_sessions,
                       conflict_review_seq, target_newer_conflicts, diffs,
                       unmount_requests>>

----------------------------------------------------------------------------
AppInit ==
    /\ runtime_config = {}
    /\ watchers = {}
    /\ runtime_watch_sources = {}
    /\ runtime_initial_watch_bootstrapped = FALSE
    /\ syncing_tasks = {}
    /\ runtime_sync_queue = <<>>
    /\ queued_sync_tasks = {}
    /\ runtime_dispatcher_running = FALSE
    /\ slot_permit = FALSE
    /\ cancel_tokens = {}
    /\ ui_queued = {}
    /\ enqueue_order = <<>>
    /\ procs = EmptyBag
    /\ last = Quiet
    /\ auto_unmount = {}
    /\ log = <<>>
    /\ conflict_review_sessions = <<>>
    /\ conflict_review_seq = 0
    /\ target_newer_conflicts = [t \in Tasks |-> <<>>]
    /\ diffs = [t \in Tasks |-> <<>>]
    /\ unmount_requests = [t \in Tasks |-> 0]
    /\ reply = NoReply
    /\ emitted = {}
    /\ file_ops = <<>>

orphan_rest == fs = <<>> /\ orphan = [pc |-> "rest"]

debounce_rest ==
    /\ channel = <<>>
    /\ debounce = [pc |-> "rest"]
    /\ watching = [in_map |-> FALSE]
    /\ on_change = <<>>
    /\ burst = <<>>

validate_rest ==
    /\ payload_tasks = <<>>
    /\ stored_tasks = <<>>
    /\ set_config_returned = "none"

\* No runtime_set_config call has been made: the configuration is the
\* default one and nothing is managed.
MaxCalls == 2

NoCall == [pc |-> "rest"]

config_rest ==
    /\ volume_mounted = FALSE
    /\ unwatchable = {}
    /\ stored_exclusion_sets = <<>>
    /\ watch_source_paths = [t \in Tasks |-> <<>>]
    /\ config_calls = [c \in 1..MaxCalls |-> NoCall]
    /\ config_returns = <<>>

LowerRest ==
    /\ safe_copy_rest /\ engine_rest /\ orphan_rest /\ debounce_rest /\ validate_rest
    /\ config_rest

Init == AppInit /\ LowerRest

\* The frontend sets the configuration once, with both watch tasks, none
\* of them with auto_unmount.
first_runtime_set_config ==
    /\ ~runtime_initial_watch_bootstrapped
    /\ \E order \in Orders(WatchTasks) : \E fr \in SUBSET WatchTasks :
          \E fw \in SUBSET WatchTasks : runtime_set_config(order, {}, fr, fw)

\* The frontend has at most MaxManual manual syncs running; a call for a
\* task that is syncing is refused and starts none.
ManualAllowed(t) == t \in syncing_tasks \/ ManualRuns(procs) < MaxManual

\* The coordinator: admission, queue and dispatcher, every run one step.
Next ==
    \/ \E t \in ManualTasks : ManualAllowed(t) /\ start_sync(t)
    \/ \E t \in WatchTasks : watch_callback(t)
    \/ first_runtime_set_config
    \/ \E p \in Live : execute_sync_internal(p)
    \/ \E p \in Live : enqueue_check(p)
    \/ \E p \in Live : enqueue_insert(p)
    \/ \E p \in Live : enqueue_push(p)
    \/ \E p \in Live : dispatcher_start(p)
    \/ \E p \in Live : dispatcher_read_syncing(p)
    \/ \E p \in Live : dispatcher_read_queue(p)
    \/ \E p \in Live : dispatcher_notified(p)
    \/ \E p \in Live : dispatcher_pop(p)
    \/ \E p \in Live : dispatcher_unqueue(p)
    \/ \E p \in Live : dispatcher_clear(p)
    \/ \E p \in Live : dispatcher_recheck(p)
    \/ \E p \in Live : runtime_sync_task_config(p)
    \/ \E p \in Live : runtime_sync_task_sources(p)
    \/ \E p \in Live : runtime_sync_task_watchers(p)
    \/ \E p \in Live : runtime_sync_task_acquire(p)

Spec == Init /\ [][Next]_vars

----------------------------------------------------------------------------
\* The runs in detail: every exit path of execute_sync_internal is a step
\* of its own and a run can be cancelled.  The configuration is set once
\* and its initial syncs are the watch-triggered requests.

NextRun ==
    \/ \E t \in ManualTasks : ManualAllowed(t) /\ start_sync(t)
    \/ \E t \in Tasks : cancel_operation(t)
    \/ first_runtime_set_config
    \/ \E p \in Live : execute_sync_begin(p)
    \/ \E p \in Live : execute_sync_begin_failed(p)
    \/ \E p \in Live : execute_sync_scan_failed(p)
    \/ \E p \in Live : execute_sync_copy(p)
    \/ \E p \in Live : execute_sync_release(p)
    \/ \E p \in Live : enqueue_check(p)
    \/ \E p \in Live : enqueue_insert(p)
    \/ \E p \in Live : enqueue_push(p)
    \/ \E p \in Live : dispatcher_start(p)
    \/ \E p \in Live : dispatcher_read_syncing(p)
    \/ \E p \in Live : dispatcher_read_queue(p)
    \/ \E p \in Live : dispatcher_notified(p)
    \/ \E p \in Live : dispatcher_pop(p)
    \/ \E p \in Live : dispatcher_unqueue(p)
    \/ \E p \in Live : dispatcher_clear(p)
    \/ \E p \in Live : dispatcher_recheck(p)
    \/ \E p \in Live : runtime_sync_task_config(p)
    \/ \E p \in Live : runtime_sync_task_sources(p)
    \/ \E p \in Live : runtime_sync_task_watchers(p)
    \/ \E p \in Live : runtime_sync_task_acquire(p)

SpecRun == Init /\ [][NextRun]_vars

----------------------------------------------------------------------------
\* The coordinator under fair scheduling.  The configuration is set once
\* (the initial syncs fill the queue), manual syncs come at any time, every
\* spawned task is scheduled again and again until it ends, and every run
\* ends.

NextLive ==
    \/ \E t \in ManualTasks : start_sync(t)
    \/ first_runtime_set_config
    \/ \E p \in Live : execute_sync_internal(p)
    \/ \E p \in Live : enqueue_check(p)
    \/ \E p \in Live : enqueue_insert(p)
    \/ \E p \in Live : enqueue_push(p)
    \/ \E p \in Live : dispatcher_start(p)
    \/ \E p \in Live : dispatcher_read_syncing(p)
    \/ \E p \in Live : dispatcher_read_queue(p)
    \/ \E p \in Live : dispatcher_notified(p)
    \/ \E p \in Live : dispatcher_pop(p)
    \/ \E p \in Live : dispatcher_unqueue(p)
    \/ \E p \in Live : dispatcher_clear(p)
    \/ \E p \in Live : dispatcher_recheck(p)
    \/ \E p \in Live : runtime_sync_task_config(p)
    \/ \E p \in Live : runtime_sync_task_sources(p)
    \/ \E p \in Live : runtime_sync_task_watchers(p)
    \/ \E p \in Live : runtime_sync_task_acquire(p)

\* One step of the spawned task p.
TaskStep(p) ==
    \/ execute_sync_internal(p)
    \/ enqueue_check(p) \/ enqueue_insert(p) \/ enqueue_push(p)
    \/ dispatcher_start(p) \/ dispatcher_read_syncing(p) \/ dispatcher_read_queue(p)
    \/ dispatcher_notified(p) \/ dispatcher_pop(p) \/ dispatcher_unqueue(p)
    \/ dispatcher_clear(p) \/ dispatcher_recheck(p)
    \/ runtime_sync_task_config(p) \/ runtime_sync_task_sources(p)
    \/ runtime_sync_task_watchers(p) \/ runtime_sync_task_acquire(p)

TaskKinds == {"run", "enq", "boot", "rst", "disp"}

\* The async runtime polls every spawned task that can proceed.
Fairness ==
    \A k \in TaskKinds : \A t \in Tasks \cup {NoTask} :
        WF_vars(\E p \in Live : p.k = k /\ p.t = t /\ TaskStep(p))

SpecLive == Init /\ [][NextLive]_vars /\ Fairness

----------------------------------------------------------------------------
\* The run seen from inside: the block of execute_sync_internal await by
\* await, with the log, the conflict sessions and the files of the target.
\* The batched per-file log entries (level info) are left out of the log.

Entry(level, category, task_id) ==
    [level |-> level, category |-> category, task_id |-> task_id]

\* LogManager::append_entries: push_back each entry, then pop_front while
\* more than max_lines are kept.
append_entries(logs, entries) ==
    LET all == logs \o entries
    IN  IF Len(all) > max_lines
        THEN SubSeq(all, Len(all) - max_lines + 1, Len(all))
        ELSE all

\* A map that forgets its entries when one is inserted.
InsertAlone(map, key, value) == [k \in {key} |-> value]

\* HashMap::insert.
Insert(map, key, value) ==
    [k \in DOMAIN map \cup {key} |-> IF k = key THEN value ELSE map[k]]

\* HashMap::remove.
Remove(map, key) == [k \in DOMAIN map \ {key} |-> map[k]]

\* format!("conflict-{task_id}-{ts}-{seq}"): the text ends with the
\* sequence number, so two ids are equal only if their sequence numbers
\* are; the time stamp is left out.
session_id_for_task(task_id, seq) == <<task_id, seq>>

\* build_conflict_item(index, candidate): relative_path stands for what is
\* copied from the candidate (paths and snapshots).
build_conflict_item(index, candidate) ==
    [id |-> index, relative_path |-> candidate, status |-> "Pending", note |-> "none"]

\* The candidate lists a scan can return: k paths, numbered.
Candidates == {[i \in 1..k |-> i] : k \in 0..MaxConflicts}

\* The scan finds target-newer files only while sequence numbers are left
\* for the sessions of the runs in flight.
SessionsAhead ==
    conflict_review_seq
        + Cardinality({t \in Tasks : target_newer_conflicts[t] # <<>>})

\* create_conflict_review_session: the store, the sequence counter and the
\* log entries after it, and the id it returns (NoTask for None).
create_conflict_review_session(task_id, candidates, origin) ==
    IF candidates = <<>>
    THEN [sessions |-> conflict_review_sessions, seq |-> conflict_review_seq,
          entries |-> <<>>, id |-> NoTask]
    ELSE LET seq == conflict_review_seq + 1
             session_id == session_id_for_task(task_id, seq)
             session == [task_id |-> task_id, origin |-> origin,
                         items |-> [i \in DOMAIN candidates |->
                                       build_conflict_item(i, candidates[i])]]
         IN  [sessions |-> Insert(conflict_review_sessions, session_id, session),
              seq |-> seq,
              entries |-> <<Entry("warning", "Other", task_id)>>,
              id |-> session_id]

\* A loop that takes the last unfinished diff instead of the first.
LastUnfinished(d) ==
    IF \E i \in DOMAIN d : d[i] \in {"pending", "partial"}
    THEN CHOOSE i \in DOMAIN d :
             /\ d[i] \in {"pending", "partial"}
             /\ \A j \in DOMAIN d : j > i => d[j] \notin {"pending", "partial"}
    ELSE 0

\* A run inside the select: sync_files is scanning or copying.
InSelect(p) == p.k = "run" /\ p.pc \in {"compare", "copy"}

\* The token of a run (n): 0 not fired; 1 fired while sync_files waits
\* for an operation inside the select; 2 fired, and the select has polled
\* sync_files since or had not begun when it fired.  tokio::select! polls
\* its branches in random order: at the poll after the token has fired,
\* sync_files, if polled first with its operation finished, goes on up to
\* its next operation or returns; then cancel_token.cancelled() is polled
\* and wins.
Polled(n) == IF n = 1 THEN 2 ELSE n

\* The file the copy loop is at: the first diff not yet processed to its
\* end (0 when there is none).
CurrentFile(d) ==
    IF \E i \in DOMAIN d : d[i] \in {"pending", "partial"}
    THEN CHOOSE i \in DOMAIN d :
            /\ d[i] \in {"pending", "partial"}
            /\ \A j \in DOMAIN d : j < i => d[j] \notin {"pending", "partial"}
    ELSE 0

\* Path resolution and input validation succeed, the cancellation token
\* is registered and "Sync started" is logged.
sync_started(p) ==
    /\ p.k = "run" /\ p.pc = "begin"
    /\ cancel_tokens' = cancel_tokens \cup {p.t}
    /\ log' = append_entries(log, <<Entry("info", "SyncStarted", p.t)>>)
    /\ procs' = Move(procs, p, [p EXCEPT !.pc = "scan"])
    /\ last' = Quiet
    /\ Silent
    /\ UNCHANGED <<watch_vars, queue_vars, syncing_tasks, runtime_dispatcher_running,
                   slot_permit, ui_queued, enqueue_order, auto_unmount,
                   conflict_review_sessions, conflict_review_seq,
                   target_newer_conflicts, diffs, unmount_requests>>

\* engine.target_newer_conflicts(&options): Ok with the candidates.
sync_scanned(p) ==
    /\ p.k = "run" /\ p.pc = "scan"
    /\ \E c \in Candidates :
          /\ c # <<>> => SessionsAhead < MaxSessions
          /\ target_newer_conflicts' = [target_newer_conflicts EXCEPT ![p.t] = c]
    /\ procs' = Move(procs, p, [p EXCEPT !.pc = "compare", !.n = Polled(p.n)])
    /\ last' = Quiet
    /\ Silent
    /\ UNCHANGED <<watch_vars, queue_vars, syncing_tasks, runtime_dispatcher_running,
                   slot_permit, cancel_tokens, ui_queued, enqueue_order,
                   auto_unmount, log, conflict_review_sessions,
                   conflict_review_seq, diffs, unmount_requests>>

\* An early `?` of the block: path resolution or validation fails (pc
\* begin, no token yet) or the scan fails (pc scan, the token stays
\* registered).  Nothing is logged; the block is left with Err.
sync_block_left(p) ==
    /\ p.k = "run" /\ p.pc \in {"begin", "scan"}
    /\ procs' = Move(procs, p, [p EXCEPT !.pc = "release", !.r = "err"])
    /\ last' = Quiet
    /\ UNCHANGED run_vars
    /\ Silent
    /\ UNCHANGED <<watch_vars, queue_vars, syncing_tasks, runtime_dispatcher_running,
                   slot_permit, cancel_tokens, ui_queued, enqueue_order>>

\* engine.sync_files, its own compare_dirs_internal: Ok with m diffs, at
\* most `most` (with none, sync_files returns Ok at once), or Err.
sync_files_compared(p, most) ==
    /\ p.k = "run" /\ p.pc = "compare" /\ p.n # 2
    /\ \/ \E m \in 0..most :
             /\ diffs' = [diffs EXCEPT ![p.t] = [i \in 1..m |-> "pending"]]
             /\ procs' = Move(procs, p,
                    IF m = 0 THEN [p EXCEPT !.pc = "tokens", !.r = "ok"]
                    ELSE [p EXCEPT !.pc = "copy", !.n = Polled(p.n)])
       \/ /\ procs' = Move(procs, p, [p EXCEPT !.pc = "tokens", !.r = "err"])
          /\ UNCHANGED diffs
    /\ last' = Quiet
    /\ Silent
    /\ UNCHANGED <<watch_vars, queue_vars, syncing_tasks, runtime_dispatcher_running,
                   slot_permit, cancel_tokens, ui_queued, enqueue_order,
                   auto_unmount, log, conflict_review_sessions,
                   conflict_review_seq, target_newer_conflicts, unmount_requests>>

\* The copy loop of sync_files at its current diff: copy_file_chunked
\* creates the target file and writes it ("partial"), then ends Ok
\* ("complete") or with an error that is pushed to result.errors
\* ("failed"); after the last diff sync_files returns Ok.
sync_files_copied(p) ==
    /\ p.k = "run" /\ p.pc = "copy" /\ p.n # 2
    /\ LET i == CurrentFile(diffs[p.t])
       IN  \E to \in {"partial", "complete", "failed"} :
              /\ \/ diffs[p.t][i] = "pending" /\ to \in {"partial", "failed"}
                 \/ diffs[p.t][i] = "partial" /\ to \in {"complete", "failed"}
              /\ diffs' = [diffs EXCEPT ![p.t][i] = to]
              /\ procs' = Move(procs, p,
                     IF to # "partial" /\ i = Len(diffs[p.t])
                     THEN [p EXCEPT !.pc = "tokens", !.r = "ok"]
                     ELSE [p EXCEPT !.n = Polled(p.n)])
    /\ last' = Quiet
    /\ Silent
    /\ UNCHANGED <<watch_vars, queue_vars, syncing_tasks, runtime_dispatcher_running,
                   slot_permit, cancel_tokens, ui_queued, enqueue_order,
                   auto_unmount, log, conflict_review_sessions,
                   conflict_review_seq, target_newer_conflicts, unmount_requests>>

\* tokio::select!, second branch: the token has fired and the select takes
\* cancel_token.cancelled(); the sync_files future is dropped where it is.
select_cancelled(p) ==
    /\ InSelect(p) /\ p.n >= 1
    /\ procs' = Move(procs, p, [p EXCEPT !.pc = "tokens", !.r = "cancelled"])
    /\ last' = Quiet
    /\ UNCHANGED run_vars
    /\ Silent
    /\ UNCHANGED <<watch_vars, queue_vars, syncing_tasks, runtime_dispatcher_running,
                   slot_permit, cancel_tokens, ui_queued, enqueue_order>>

\* After the select, tokens.remove(&task_id); a result Err is logged at
\* level error ("Sync failed: ...") and the block is left with it, whether
\* the error is one of sync_files or "Operation cancelled by user".
sync_failed(p) ==
    /\ p.k = "run" /\ p.pc = "tokens" /\ p.r \in {"err", "cancelled"}
    /\ cancel_tokens' = cancel_tokens \ {p.t}
    /\ log' = append_entries(log, <<Entry("error", "SyncError", p.t)>>)
    /\ procs' = Move(procs, p, [p EXCEPT !.pc = "release"])
    /\ last' = Quiet
    /\ Silent
    /\ UNCHANGED <<watch_vars, queue_vars, syncing_tasks, runtime_dispatcher_running,
                   slot_permit, ui_queued, enqueue_order, auto_unmount,
                   conflict_review_sessions, conflict_review_seq,
                   target_newer_conflicts, diffs, unmount_requests>>

\* After the select, tokens.remove(&task_id) with a result Ok.
sync_tokens_removed(p) ==
    /\ p.k = "run" /\ p.pc = "tokens" /\ p.r = "ok"
    /\ cancel_tokens' = cancel_tokens \ {p.t}
    /\ procs' = Move(procs, p, [p EXCEPT !.pc = "result"])
    /\ last' = Quiet
    /\ UNCHANGED run_vars
    /\ Silent
    /\ UNCHANGED <<watch_vars, queue_vars, syncing_tasks, runtime_dispatcher_running,
                   slot_permit, ui_queued, enqueue_order>>

\* Result Ok: "Sync completed" is logged at level success and
\* create_conflict_review_session opens a session for the candidates.
sync_completed(p) ==
    /\ p.k = "run" /\ p.pc = "result"
    /\ LET c == create_conflict_review_session(p.t, target_newer_conflicts[p.t], p.o)
       IN  /\ conflict_review_sessions' = c.sessions
           /\ conflict_review_seq' = c.seq
           /\ log' = append_entries(log,
                  <<Entry("success", "SyncCompleted", p.t)>> \o c.entries)
    /\ procs' = Move(procs, p, [p EXCEPT !.pc = "release"])
    /\ last' = Quiet
    /\ Silent
    /\ UNCHANGED <<watch_vars, queue_vars, syncing_tasks, runtime_dispatcher_running,
                   slot_permit, cancel_tokens, ui_queued, enqueue_order,
                   auto_unmount, target_newer_conflicts, diffs, unmount_requests>>

\* An unmount that does not look at the pending conflicts.
unmount_wanted_despite_conflicts(origin, result, auto, has_pending_conflicts) ==
    origin = "watch" /\ result = "ok" /\ auto

\* runtime_sync_task after execute_sync_internal: `if let Ok(exec_result)`
\* and `task.auto_unmount && !exec_result.has_pending_conflicts`; start_sync
\* has no such code.
unmount_wanted(origin, result, auto, has_pending_conflicts) ==
    origin = "watch" /\ result = "ok" /\ auto /\ ~has_pending_conflicts

\* `else if task.auto_unmount && exec_result.has_pending_conflicts`
unmount_skipped(origin, result, auto, has_pending_conflicts) ==
    origin = "watch" /\ result = "ok" /\ auto /\ has_pending_conflicts

\* release_sync_slot, then the caller's tail.  runtime_sync_task asks for
\* the unmount of the source volume (the request is made unless the source
\* path does not resolve; a failed unmount logs a warning) or logs that it
\* is skipped.  The run's task ends.
sync_released(p) ==
    /\ p.k = "run" /\ p.pc = "release"
    /\ Released(p)
    /\ LET auto == p.t \in auto_unmount
           has_pending_conflicts == target_newer_conflicts[p.t] # <<>>
       IN  IF unmount_wanted(p.o, p.r, auto, has_pending_conflicts)
           THEN \E outcome \in {"unresolved", "unmounted", "failed"} :
                   /\ unmount_requests' =
                         [unmount_requests EXCEPT
                             ![p.t] = @ + IF outcome = "unresolved" THEN 0 ELSE 1]
                   /\ log' = IF outcome = "failed"
                             THEN append_entries(log, <<Entry("warning", "Other", p.t)>>)
                             ELSE log
           ELSE /\ log' = IF unmount_skipped(p.o, p.r, auto, has_pending_conflicts)
                          THEN append_entries(log, <<Entry("warning", "Other", p.t)>>)
                          ELSE log
                /\ UNCHANGED unmount_requests
    /\ target_newer_conflicts' = [target_newer_conflicts EXCEPT ![p.t] = <<>>]
    /\ diffs' = [diffs EXCEPT ![p.t] = <<>>]
    /\ Silent
    /\ UNCHANGED <<watch_vars, queue_vars, runtime_dispatcher_running, cancel_tokens,
                   ui_queued, enqueue_order, auto_unmount,
                   conflict_review_sessions, conflict_review_seq>>

\* cancel_operation with its log entry: a token found under the task id is
\* fired and "Operation cancelled by user" is logged at level warning.  The
\* token reaches the run that registered it, if that run is still before
\* or inside its select.
TokenHeld(p) == p.k = "run" /\ p.pc \in {"scan", "compare", "copy"}

sync_cancel_operation(t) ==
    /\ IF cancel_operation_result(cancel_tokens, t)
       THEN /\ log' = append_entries(log, <<Entry("warning", "Other", t)>>)
            /\ IF \E p \in Live : TokenHeld(p) /\ p.t = t
               THEN \E p \in Live :
                       /\ TokenHeld(p) /\ p.t = t
                       /\ procs' = Move(procs, p,
                              [p EXCEPT !.n = IF p.n = 0 THEN 1 ELSE p.n])
               ELSE UNCHANGED procs
       ELSE UNCHANGED <<log, procs>>
    /\ last' = Quiet
    /\ Silent
    /\ UNCHANGED <<watch_vars, queue_vars, syncing_tasks, runtime_dispatcher_running,
                   slot_permit, cancel_tokens, ui_queued, enqueue_order,
                   auto_unmount, conflict_review_sessions, conflict_review_seq,
                   target_newer_conflicts, diffs, unmount_requests>>

\* The tasks whose runs are followed from inside: those the frontend both
\* watches and syncs by hand.
SyncTasks == ManualTasks \cap WatchTasks

\* The frontend sets the configuration once, with one watch task, with or
\* without auto_unmount.
sync_runtime_set_config ==
    /\ ~runtime_initial_watch_bootstrapped
    /\ \E t \in SyncTasks : \E unmount \in SUBSET {t} :
          runtime_set_config(<<t>>, unmount, {}, {})

\* With one task the syncing set never reaches the cap, so the dispatcher
\* never waits for a slot.
NextSync ==
    \/ \E t \in SyncTasks : ManualAllowed(t) /\ start_sync(t)
    \/ \E t \in SyncTasks : sync_cancel_operation(t)
    \/ sync_runtime_set_config
    \/ \E p \in Live : sync_started(p)
    \/ \E p \in Live : sync_scanned(p)
    \/ \E p \in Live : sync_block_left(p)
    \/ \E p \in Live : sync_files_compared(p, MaxDiffs)
    \/ \E p \in Live : sync_files_copied(p)
    \/ \E p \in Live : select_cancelled(p)
    \/ \E p \in Live : sync_failed(p)
    \/ \E p \in Live : sync_tokens_removed(p)
    \/ \E p \in Live : sync_completed(p)
    \/ \E p \in Live : sync_released(p)
    \/ \E p \in Live : enqueue_check(p)
    \/ \E p \in Live : enqueue_insert(p)
    \/ \E p \in Live : enqueue_push(p)
    \/ \E p \in Live : dispatcher_start(p)
    \/ \E p \in Live : dispatcher_read_syncing(p)
    \/ \E p \in Live : dispatcher_read_queue(p)
    \/ \E p \in Live : dispatcher_pop(p)
    \/ \E p \in Live : dispatcher_unqueue(p)
    \/ \E p \in Live : dispatcher_clear(p)
    \/ \E p \in Live : dispatcher_recheck(p)
    \/ \E p \in Live : runtime_sync_task_config(p)
    \/ \E p \in Live : runtime_sync_task_sources(p)
    \/ \E p \in Live : runtime_sync_task_watchers(p)
    \/ \E p \in Live : runtime_sync_task_acquire(p)

SpecSync == Init /\ [][NextSync]_vars

----------------------------------------------------------------------------
\* The conflict review: the sessions the runs open and the commands of the
\* review window (get_conflict_review_session, resolve_conflict_items,
\* close_conflict_review_session).  A resolve batch is an async task of
\* kind "resolve"; its r carries the locals of resolve_conflict_items: the
\* session id, the requests still to handle (the first is the one the loop
\* is at), requested_count, processed_count, failures and apply_result.
\* Every lock of the session store is held for one step.  The files on disk
\* are not part of the state: what a file operation finds there is an
\* input of the step that makes it, and file_ops tells which operations
\* the step made.

coord_vars == <<watch_vars, queue_vars, syncing_tasks, runtime_dispatcher_running,
                slot_permit, cancel_tokens, ui_queued, enqueue_order>>

sync_vars == <<auto_unmount, target_newer_conflicts, diffs, unmount_requests>>

ConflictResolutionAction == {"Skip", "ForceCopy", "RenameThenCopy"}

\* The item ids a request can name: those of the largest session and one
\* that no session has.
ItemIds == 1..(MaxConflicts + 1)

ConflictResolutionRequest == [item_id : ItemIds, action : ConflictResolutionAction]

Resolutions == UNION {[1..k -> ConflictResolutionRequest] : k \in 0..MaxRequests}

\* The session ids a command can name.
SessionIds == {session_id_for_task(t, seq) : t \in SyncTasks, seq \in 1..MaxSessions}

pending_conflict_count(items) ==
    Cardinality({i \in DOMAIN items : items[i].status = "Pending"})

\* session.items.iter().find(|item| item.id == item_id)
HasItem(items, item_id) == \E i \in DOMAIN items : items[i].id = item_id

FindItem(items, item_id) == CHOOSE i \in DOMAIN items : items[i].id = item_id

ConflictResolutionFailure(item_id, message) == [item_id |-> item_id, message |-> message]

\* What a command returns.
NotFound(op, session_id) ==
    [op |-> op, session_id |-> session_id, err |-> "Conflict session not found"]

ResolveErr(session_id, message) ==
    [op |-> "resolve_conflict_items", session_id |-> session_id, err |-> message]

ConflictResolutionResult(session_id, requested, processed, pending, failures) ==
    [op |-> "resolve_conflict_items", session_id |-> session_id, err |-> "none",
     requested_count |-> requested, processed_count |-> processed,
     pending_count |-> pending, failures |-> failures]

CloseConflictReviewSessionResult(session_id, force_skip_pending, closed, had_pending, skipped) ==
    [op |-> "close_conflict_review_session", session_id |-> session_id,
     force_skip_pending |-> force_skip_pending, err |-> "none",
     closed |-> closed, had_pending |-> had_pending, skipped_count |-> skipped]

ConflictSessionDetail(session_id, session) ==
    [op |-> "get_conflict_review_session", session_id |-> session_id, err |-> "none",
     items |-> session.items]

\* The events of a command that changed the queue.
QueueEvents == {"conflict-review-queue-changed", "conflict-review-session-updated"}

get_conflict_review_session(session_id) ==
    /\ reply' = IF session_id \in DOMAIN conflict_review_sessions
                THEN ConflictSessionDetail(session_id, conflict_review_sessions[session_id])
                ELSE NotFound("get_conflict_review_session", session_id)
    /\ emitted' = {}
    /\ file_ops' = <<>>
    /\ last' = Quiet
    /\ UNCHANGED <<coord_vars, sync_vars, lower_vars, procs, log, conflict_review_sessions,
                   conflict_review_seq>>

\* A close that never refuses.
close_refused_never(had_pending, force_skip_pending) == FALSE

\* `if had_pending && !force_skip_pending { return Ok(closed: false ..) }`
close_refused(had_pending, force_skip_pending) == had_pending /\ ~force_skip_pending

\* A close that counts every item as skipped.
skipped_count_all(items, had_pending, force_skip_pending) == Len(items)

\* The Pending items a forced close sets to Skipped.
skipped_count(items, had_pending, force_skip_pending) ==
    IF had_pending /\ force_skip_pending THEN pending_conflict_count(items) ELSE 0

\* close_conflict_review_session: the whole of it holds the write lock of
\* the store up to sessions.remove; the events follow.
close_conflict_review_session(session_id, force_skip_pending) ==
    /\ IF session_id \notin DOMAIN conflict_review_sessions
       THEN /\ reply' = NotFound("close_conflict_review_session", session_id)
            /\ emitted' = {}
            /\ UNCHANGED conflict_review_sessions
       ELSE LET items == conflict_review_sessions[session_id].items
                had_pending == pending_conflict_count(items) > 0
            IN  IF close_refused(had_pending, force_skip_pending)
                THEN /\ reply' = CloseConflictReviewSessionResult(
                                     session_id, force_skip_pending, FALSE, TRUE, 0)
                     /\ emitted' = {}
                     /\ UNCHANGED conflict_review_sessions
                ELSE /\ reply' = CloseConflictReviewSessionResult(
                                     session_id, force_skip_pending, TRUE, had_pending,
                                     skipped_count(items, had_pending, force_skip_pending))
                     /\ emitted' = QueueEvents
                     /\ conflict_review_sessions' =
                            Remove(conflict_review_sessions, session_id)
    /\ file_ops' = <<>>
    /\ last' = Quiet
    /\ UNCHANGED <<coord_vars, sync_vars, lower_vars, procs, log, conflict_review_seq>>

\* The locals of a batch at the start of its loop.
NoApply == [ok |-> FALSE, status |-> "none", note |-> "none"]

Batch(session_id, resolutions) ==
    P("resolve", session_id[1], "snapshot", "none",
      [session_id |-> session_id, rest |-> resolutions,
       requested_count |-> Len(resolutions), processed_count |-> 0,
       failures |-> <<>>, apply |-> NoApply], 0)

Resolves(b) == Count(b, {p \in DOMAIN b : p.k = "resolve"})

\* The review window and the frontend have at most MaxBusy runs and
\* batches in flight together.
Idle == Runs(procs) + Resolves(procs) < MaxBusy

\* resolve_conflict_items up to its loop: with no request it returns the
\* pending count; with requests for a session that is not in the store it
\* returns Err; else the batch starts.
resolve_conflict_items(session_id, resolutions) ==
    /\ IF session_id \notin DOMAIN conflict_review_sessions
       THEN /\ reply' = NotFound("resolve_conflict_items", session_id)
            /\ UNCHANGED procs
       ELSE IF resolutions = <<>>
            THEN /\ reply' = ConflictResolutionResult(session_id, 0, 0,
                                 pending_conflict_count(
                                     conflict_review_sessions[session_id].items), <<>>)
                 /\ UNCHANGED procs
            ELSE /\ reply' = NoReply
                 /\ procs' = Spawn(procs, Batch(session_id, resolutions))
    /\ emitted' = {}
    /\ file_ops' = <<>>
    /\ last' = Quiet
    /\ UNCHANGED <<coord_vars, sync_vars, lower_vars, log, conflict_review_sessions,
                   conflict_review_seq>>

\* `continue`, and the end of the loop body: on to the next request, or out
\* of the loop after the last.
Continue(p, r) ==
    [p EXCEPT !.pc = IF Tail(r.rest) = <<>> THEN "finish" ELSE "snapshot",
              !.r = [r EXCEPT !.rest = Tail(@), !.apply = NoApply]]

\* A loop that passes over a request for an unknown item without a word.
item_missing_silent(r, request) == r

\* `let Some(..) = item_snapshot else { failures.push(..); continue; }`
item_missing(r, request) ==
    [r EXCEPT !.failures =
         Append(@, ConflictResolutionFailure(request.item_id, "Conflict item not found"))]

\* `if item_snapshot.status != ConflictItemStatus::Pending { continue; }`
item_settled(item) == item.status # "Pending"

\* The head of the loop: the item is looked up under the read lock.  A
\* session that has left the store ends the loop (`break`).
resolve_snapshot(p) ==
    /\ p.k = "resolve" /\ p.pc = "snapshot"
    /\ LET request == Head(p.r.rest)
           session_id == p.r.session_id
       IN  procs' = Move(procs, p,
              IF session_id \notin DOMAIN conflict_review_sessions
              THEN [p EXCEPT !.pc = "finish"]
              ELSE LET items == conflict_review_sessions[session_id].items
                   IN  IF ~HasItem(items, request.item_id)
                       THEN Continue(p, item_missing(p.r, request))
                       ELSE IF item_settled(items[FindItem(items, request.item_id)])
                            THEN Continue(p, p.r)
                            ELSE [p EXCEPT !.pc = "apply"])
    /\ reply' = NoReply
    /\ emitted' = {}
    /\ file_ops' = <<>>
    /\ last' = Quiet
    /\ UNCHANGED <<coord_vars, sync_vars, lower_vars, log, conflict_review_sessions,
                   conflict_review_seq>>

ApplyOk(status, note) == [ok |-> TRUE, status |-> status, note |-> note]

ApplyErr(message) == [ok |-> FALSE, status |-> "none", note |-> message]

\* What the arm of an action does: returns, TRUE if a `?` of the arm left
\* resolve_conflict_items with the error; apply, the arm's apply_result;
\* ops, its file operations; seq, the sequence numbers it took.
Arm(returns, apply, ops, seq) ==
    [returns |-> returns, apply |-> apply, ops |-> ops, seq |-> seq]

Skip == {Arm(FALSE, ApplyOk("Skipped", "User chose to skip this conflict item."), <<>>, 0)}

\* copy_file_preserve(..).await.map(..): Ok or the copy's error, both as
\* apply_result.
ForceCopy ==
    {Arm(FALSE, ApplyOk("ForceCopied", "Copied source file to target (force overwrite)."),
         <<"copy">>, 0),
     Arm(FALSE, ApplyErr("copy failed"), <<"copy">>, 0)}

\* The RenameThenCopy arm.  create_dir_all, the metadata test of the
\* target, the rename and the exhausted backup names end with `?`; only
\* the copy after the rename ends in apply_result.  Every backup name
\* tried takes a sequence number.  (target_path.parent() is never None for
\* a file below the target root.)
RenameThenCopy ==
    {Arm(TRUE, ApplyErr("Failed to ensure target parent directory"),
         <<"create_dir_all">>, 0),
     Arm(TRUE, ApplyErr("Target file does not exist for safe copy rename"),
         <<"create_dir_all">>, 0),
     Arm(TRUE, ApplyErr("Failed to generate non-conflicting backup file name"),
         <<"create_dir_all">>, BackupNameAttempts)}
    \cup {Arm(TRUE, ApplyErr("Failed to rename target file"),
              <<"create_dir_all", "rename">>, k) : k \in 1..BackupNameAttempts}
    \cup {Arm(FALSE, ApplyErr("Target was renamed but source copy failed"),
              <<"create_dir_all", "rename", "copy">>, k) : k \in 1..BackupNameAttempts}
    \cup {Arm(FALSE, ApplyOk("SafeCopied", "Renamed existing target and copied source file."),
              <<"create_dir_all", "rename", "copy">>, k) : k \in 1..BackupNameAttempts}

Arms(action) ==
    CASE action = "Skip" -> Skip
      [] action = "ForceCopy" -> ForceCopy
      [] action = "RenameThenCopy" -> RenameThenCopy

\* The preflight metadata check (it may log a warning) and the arm of the
\* request's action.
resolve_apply(p) ==
    /\ p.k = "resolve" /\ p.pc = "apply"
    /\ \E warned \in BOOLEAN :
          log' = IF warned
                 THEN append_entries(log, <<Entry("warning", "Other", p.t)>>)
                 ELSE log
    /\ \E arm \in Arms(Head(p.r.rest).action) :
          /\ SessionsAhead + arm.seq <= MaxSessions
          /\ conflict_review_seq' = conflict_review_seq + arm.seq
          /\ file_ops' = arm.ops
          /\ IF arm.returns
             THEN /\ procs' = Kill(procs, p)
                  /\ reply' = ResolveErr(p.r.session_id, arm.apply.note)
             ELSE /\ procs' = Move(procs, p,
                         [p EXCEPT !.pc = "record", !.r.apply = arm.apply])
                  /\ reply' = NoReply
    /\ emitted' = {}
    /\ last' = Quiet
    /\ UNCHANGED <<coord_vars, sync_vars, lower_vars, conflict_review_sessions>>

\* `match apply_result`, under the write lock: Ok counts the request and
\* sets the item's status and note; Err goes to failures and to the item's
\* note.  An item or session that has left the store is passed over.
resolve_record(p) ==
    /\ p.k = "resolve" /\ p.pc = "record"
    /\ LET r == p.r
           session_id == r.session_id
           item_id == Head(r.rest).item_id
           known == /\ session_id \in DOMAIN conflict_review_sessions
                    /\ HasItem(conflict_review_sessions[session_id].items, item_id)
           i == FindItem(conflict_review_sessions[session_id].items, item_id)
       IN  /\ conflict_review_sessions' =
                 IF ~known THEN conflict_review_sessions
                 ELSE IF r.apply.ok
                      THEN [conflict_review_sessions EXCEPT
                               ![session_id].items[i].status = r.apply.status,
                               ![session_id].items[i].note = r.apply.note]
                      ELSE [conflict_review_sessions EXCEPT
                               ![session_id].items[i].note = r.apply.note]
           /\ procs' = Move(procs, p,
                 Continue(p,
                    IF r.apply.ok
                    THEN [r EXCEPT !.processed_count = @ + 1]
                    ELSE [r EXCEPT !.failures =
                             Append(@, ConflictResolutionFailure(item_id, r.apply.note))]))
    /\ reply' = NoReply
    /\ emitted' = {}
    /\ file_ops' = <<>>
    /\ last' = Quiet
    /\ UNCHANGED <<coord_vars, sync_vars, lower_vars, log, conflict_review_seq>>

\* After the loop: the pending count under the read lock (Err if the
\* session has left the store), the two events and the result.
resolve_finish(p) ==
    /\ p.k = "resolve" /\ p.pc = "finish"
    /\ LET r == p.r
       IN  IF r.session_id \notin DOMAIN conflict_review_sessions
           THEN /\ reply' = NotFound("resolve_conflict_items", r.session_id)
                /\ emitted' = {}
           ELSE /\ reply' = ConflictResolutionResult(r.session_id, r.requested_count,
                                r.processed_count,
                                pending_conflict_count(
                                    conflict_review_sessions[r.session_id].items),
                                r.failures)
                /\ emitted' = QueueEvents
    /\ procs' = Kill(procs, p)
    /\ file_ops' = <<>>
    /\ last' = Quiet
    /\ UNCHANGED <<coord_vars, sync_vars, lower_vars, log, conflict_review_sessions,
                   conflict_review_seq>>

\* The frontend sets a configuration without watch_mode tasks.
review_runtime_set_config == runtime_set_config(<<>>, {}, {}, {})

\* The review with the manual runs of one task, followed from inside.  The
\* trees of these runs differ in the target-newer files only: sync_files
\* finds nothing to copy.
NextReview ==
    \/ \E t \in SyncTasks : Idle /\ start_sync(t)
    \/ \E t \in SyncTasks : sync_cancel_operation(t)
    \/ review_runtime_set_config
    \/ \E p \in Live : sync_started(p)
    \/ \E p \in Live : sync_scanned(p)
    \/ \E p \in Live : sync_block_left(p)
    \/ \E p \in Live : sync_files_compared(p, 0)
    \/ \E p \in Live : select_cancelled(p)
    \/ \E p \in Live : sync_failed(p)
    \/ \E p \in Live : sync_tokens_removed(p)
    \/ \E p \in Live : sync_completed(p)
    \/ \E p \in Live : sync_released(p)
    \/ \E session_id \in SessionIds : get_conflict_review_session(session_id)
    \/ \E session_id \in SessionIds : \E resolutions \in Resolutions :
          Idle /\ resolve_conflict_items(session_id, resolutions)
    \/ \E session_id \in SessionIds : \E force_skip_pending \in BOOLEAN :
          close_conflict_review_session(session_id, force_skip_pending)
    \/ \E p \in Live : resolve_snapshot(p)
    \/ \E p \in Live : resolve_apply(p)
    \/ \E p \in Live : resolve_record(p)
    \/ \E p \in Live : resolve_finish(p)

SpecReview == Init /\ [][NextReview]_vars

----------------------------------------------------------------------------
\* The RenameThenCopy arm of resolve_conflict_items, seen on the files.
\* disk maps the source file, the target file and the backup names the arm
\* can generate in the target's directory to what the path holds: the
\* content of a file, or Absent.  No other program writes to these paths
\* while the arm runs.

Absent == 0

MaxContent == 2

Contents == 1..MaxContent

\* The names "{stem}_{timestamp}_{suffix}" the arm can generate: the suffix
\* comes from the clock and conflict_review_seq, so that an attempt may
\* come up with any of them.
BackupNames == {"backup_A", "backup_B"}

DiskPaths == {"source", "target"} \cup BackupNames

\* The attempts of the arm's loop (20 in the source).
SafeCopyAttempts == 2

\* What a step of the arm leaves alone.
beside_safe_copy == <<app_vars, engine_vars, orphan_vars, debounce_vars, validate_vars,
    config_vars>>

SafeCopyStart == [pc |-> "parent", attempt |-> 0, renamed_to |-> "", result |-> "none"]

SafeCopyEnd(result) == [safe_copy EXCEPT !.pc = "done", !.result = result]

\* tokio::fs::create_dir_all(&parent), which may fail.
safe_copy_parent ==
    /\ safe_copy.pc = "parent"
    /\ \/ safe_copy' = [safe_copy EXCEPT !.pc = "target"]
       \/ safe_copy' = SafeCopyEnd("Err(Failed to ensure target parent directory)")
    /\ UNCHANGED <<disk, disk_before, beside_safe_copy>>

\* if tokio::fs::metadata(&target_path).await.is_err()
safe_copy_target ==
    /\ safe_copy.pc = "target"
    /\ safe_copy' = IF disk["target"] = Absent
                    THEN SafeCopyEnd("Err(Target file does not exist for safe copy rename)")
                    ELSE [safe_copy EXCEPT !.pc = "attempt"]
    /\ UNCHANGED <<disk, disk_before, beside_safe_copy>>

backup_taken_never(backup_path) == FALSE

\* if tokio::fs::metadata(&backup_path).await.is_ok() { continue; }
backup_taken(backup_path) == disk[backup_path] # Absent

\* tokio::fs::rename(&target_path, &backup_path)
rename(from, to) == [disk EXCEPT ![to] = disk[from], ![from] = Absent]

\* One turn of the loop: a name is generated; a taken name is passed over,
\* a vacant one receives the target, unless the rename fails.
safe_copy_attempt ==
    /\ safe_copy.pc = "attempt"
    /\ safe_copy.attempt < SafeCopyAttempts
    /\ \E backup_path \in BackupNames :
          IF backup_taken(backup_path)
          THEN /\ safe_copy' = [safe_copy EXCEPT !.attempt = @ + 1]
               /\ UNCHANGED disk
          ELSE \/ /\ disk' = rename("target", backup_path)
                  /\ safe_copy' = [safe_copy EXCEPT !.pc = "copy",
                                                    !.renamed_to = backup_path]
               \/ /\ safe_copy' = SafeCopyEnd("Err(Failed to rename target file)")
                  /\ UNCHANGED disk
    /\ UNCHANGED <<disk_before, beside_safe_copy>>

\* The loop ended without a rename.
safe_copy_no_name ==
    /\ safe_copy.pc = "attempt"
    /\ safe_copy.attempt = SafeCopyAttempts
    /\ safe_copy' = SafeCopyEnd("Err(Failed to generate non-conflicting backup file name)")
    /\ UNCHANGED <<disk, disk_before, beside_safe_copy>>

\* copy_file_preserve(source, target): what it leaves on the disk and
\* what it returns.  create_dir_all may fail before anything is written;
\* tokio::fs::copy fails on a missing source and may fail otherwise; the
\* metadata and permission calls may fail after the content is written;
\* a failed set_file_mtime is ignored.
copy_file_preserve(source, target) ==
    LET copied == [disk EXCEPT ![target] = disk[source]]
    IN  {[disk |-> disk, returns |-> "Err(Failed to create parent directory)"],
         [disk |-> disk, returns |-> "Err(Failed to copy file)"]}
        \cup IF disk[source] = Absent THEN {}
             ELSE {[disk |-> copied, returns |-> "Err(Failed to preserve permissions)"],
                   [disk |-> copied, returns |-> "Ok"]}

safe_copy_copy ==
    /\ safe_copy.pc = "copy"
    /\ \E out \in copy_file_preserve("source", "target") :
          /\ disk' = out.disk
          /\ safe_copy' = SafeCopyEnd(IF out.returns = "Ok" THEN "SafeCopied"
                                      ELSE "Err(Target was renamed but source copy failed)")
    /\ UNCHANGED <<disk_before, beside_safe_copy>>

InitSafeCopy ==
    /\ AppInit
    /\ config_rest
    /\ disk \in [DiskPaths -> {Absent} \cup Contents]
    /\ disk_before = disk
    /\ safe_copy = SafeCopyStart
    /\ engine_rest
    /\ orphan_rest
    /\ debounce_rest
    /\ validate_rest

NextSafeCopy ==
    \/ safe_copy_parent
    \/ safe_copy_target
    \/ safe_copy_attempt
    \/ safe_copy_no_name
    \/ safe_copy_copy

SpecSafeCopy == InitSafeCopy /\ [][NextSafeCopy]_vars

----------------------------------------------------------------------------
\* The sync engine on the two trees.  A tree maps a relative path to what
\* read_directory finds there: nothing, a directory, or a file with the
\* size and mtime of its metadata and the checksum calculate_checksum
\* would return for it.

MaxSize == 2

MaxTime == 2

MaxHash == 2

EnginePaths == {"a", "b"}

Missing == [exists |-> FALSE, is_file |-> FALSE, size |-> 0, modified |-> 0, hash |-> 0]

Directory == [exists |-> TRUE, is_file |-> FALSE, size |-> 1, modified |-> 1, hash |-> 0]

File(size, modified, hash) ==
    [exists |-> TRUE, is_file |-> TRUE, size |-> size, modified |-> modified, hash |-> hash]

Files == {File(s, m, h) : s \in 1..MaxSize, m \in 1..MaxTime, h \in 1..MaxHash}

FileMetadata == {Missing, Directory} \cup Files

\* The time of a write made while the engine runs: later than every mtime
\* the trees start with.
Now == MaxTime + 1

FileDiff(path, kind, source_size) ==
    [path |-> path, kind |-> kind, source_size |-> source_size]

\* if target_meta.modified > source_meta.modified { target_newer_conflicts.push(..); continue; }
target_newer(source_meta, target_meta) ==
    /\ source_meta.exists /\ target_meta.exists
    /\ source_meta.is_file
    /\ target_meta.modified > source_meta.modified

\* let mut needs_copy = size differs || source is later
metadata_differs(source_meta, target_meta) ==
    \/ source_meta.size # target_meta.size
    \/ source_meta.modified > target_meta.modified

\* calculate_checksum, which fails on what is not a file.
checksum_fails(meta) == ~meta.is_file

calculate_checksum(meta) == meta.hash

\* The checksums are compared only when the metadata matches and
\* checksum_mode is on.
checksums_compared(source_meta, target_meta, checksum) ==
    /\ source_meta.exists /\ target_meta.exists /\ source_meta.is_file
    /\ ~target_newer(source_meta, target_meta)
    /\ ~metadata_differs(source_meta, target_meta)
    /\ checksum

needs_copy_always(source_meta, target_meta, checksum) == TRUE

needs_copy(source_meta, target_meta, checksum) ==
    \/ metadata_differs(source_meta, target_meta)
    \/ /\ checksum
       /\ calculate_checksum(source_meta) # calculate_checksum(target_meta)

\* compare_dirs_internal on the trees S and T: the diffs, the target-newer
\* candidates, and whether a checksum made it return Err.
compare_dirs_internal(S, T, checksum) ==
    [failed |-> \E path \in EnginePaths :
                    /\ checksums_compared(S[path], T[path], checksum)
                    /\ checksum_fails(S[path]) \/ checksum_fails(T[path]),
     diffs |->
        {FileDiff(path, "Modified", S[path].size) : path \in
            {q \in EnginePaths : /\ S[q].exists /\ T[q].exists /\ S[q].is_file
                                 /\ ~target_newer(S[q], T[q])
                                 /\ needs_copy(S[q], T[q], checksum)}}
        \cup
        {FileDiff(path, "New", S[path].size) : path \in
            {q \in EnginePaths : S[q].exists /\ ~T[q].exists /\ S[q].is_file}},
     target_newer_conflicts |->
        {path \in EnginePaths : target_newer(S[path], T[path])}]

NoResult == [files_copied |-> 0, bytes_copied |-> 0, errors |-> <<>>]

\* A run at its start; earlier is what the run before it left, if any,
\* and outcomes the history of what copy_file_chunked returned for each
\* diff so far.
EngineStart(run, touched, earlier) ==
    [pc |-> "conflicts", run |-> run, target_newer_conflicts |-> {}, diffs |-> <<>>,
     next |-> 1, result |-> NoResult, returned |-> "none", outcomes |-> <<>>,
     touched |-> touched, earlier |-> earlier]

NoRun == [returned |-> "none"]

\* What a step of the engine leaves alone.
beside_engine == <<app_vars, safe_copy_vars, orphan_vars, debounce_vars, validate_vars,
    config_vars>>

\* let target_newer_conflicts = engine.target_newer_conflicts(&options).await?
engine_target_newer_conflicts ==
    /\ engine.pc = "conflicts"
    /\ LET scan == compare_dirs_internal(source_tree, target_tree, checksum_mode)
       IN  engine' = IF scan.failed
                     THEN [engine EXCEPT !.pc = "done", !.returned = "Err"]
                     ELSE [engine EXCEPT !.pc = "compare",
                              !.target_newer_conflicts = scan.target_newer_conflicts]
    /\ UNCHANGED <<source_tree, target_tree, checksum_mode, beside_engine>>

\* sync_files: let (dry_run, _) = self.compare_dirs_internal(options).await?
\* The diffs come in the order of a HashMap's iteration.
engine_sync_files_compared ==
    /\ engine.pc = "compare"
    /\ LET scan == compare_dirs_internal(source_tree, target_tree, checksum_mode)
       IN  IF scan.failed
           THEN engine' = [engine EXCEPT !.pc = "done", !.returned = "Err"]
           ELSE \E order \in Orders(scan.diffs) :
                   engine' = [engine EXCEPT !.pc = "copy", !.diffs = order]
    /\ UNCHANGED <<source_tree, target_tree, checksum_mode, beside_engine>>

copy_file_chunked_writes_nothing(source_meta, target_meta) ==
    {[target |-> target_meta, returns |-> "Ok"]}

\* copy_file_chunked: what it leaves at the target path and what it
\* returns.  It fails before the target is created when the source cannot
\* be opened or the target cannot be created; it may fail after the
\* content is written (permissions, mtime), which leaves the time of the
\* write; on Ok the target has the source's content, and the source's
\* mtime unless the last write_all, which returns before its write is
\* done and is not flushed, lands after set_file_mtime.
copy_file_chunked(source_meta, target_meta) ==
    {[target |-> target_meta, returns |-> "Err"]}
    \cup IF source_meta.is_file /\ (target_meta.is_file \/ ~target_meta.exists)
         THEN {[target |-> File(source_meta.size, Now, source_meta.hash), returns |-> "Err"],
               [target |-> File(source_meta.size, source_meta.modified, source_meta.hash),
                returns |-> "Ok"],
               [target |-> File(source_meta.size, Now, source_meta.hash), returns |-> "Ok"]}
         ELSE {}

files_copied_counts_all(copied) == engine.result.files_copied + 1

files_copied_after(copied) == engine.result.files_copied + (IF copied THEN 1 ELSE 0)

\* One turn of the loop over dry_run.diffs.
engine_copy ==
    /\ engine.pc = "copy"
    /\ engine.next <= Len(engine.diffs)
    /\ LET diff == engine.diffs[engine.next]
       IN  \E out \in copy_file_chunked(source_tree[diff.path], target_tree[diff.path]) :
              /\ target_tree' = [target_tree EXCEPT ![diff.path] = out.target]
              /\ engine' = [engine EXCEPT
                    !.next = @ + 1,
                    !.outcomes = Append(@, out.returns),
                    !.result = IF out.returns = "Ok"
                               THEN [@ EXCEPT !.files_copied = files_copied_after(TRUE),
                                              !.bytes_copied = @ + diff.source_size]
                               ELSE [@ EXCEPT !.files_copied = files_copied_after(FALSE),
                                              !.errors = Append(@, diff.path)]]
    /\ UNCHANGED <<source_tree, checksum_mode, beside_engine>>

\* Ok(result)
engine_sync_files_returned ==
    /\ engine.pc = "copy"
    /\ engine.next > Len(engine.diffs)
    /\ engine' = [engine EXCEPT !.pc = "done", !.returned = "Ok"]
    /\ UNCHANGED <<source_tree, target_tree, checksum_mode, beside_engine>>

MaxRuns == 2

\* The task is synced again.
engine_run_again ==
    /\ engine.pc = "done"
    /\ engine.run < MaxRuns
    /\ engine' = EngineStart(engine.run + 1, engine.touched,
                             [returned |-> engine.returned,
                              files_copied |-> engine.result.files_copied,
                              errors |-> engine.result.errors,
                              target_newer_conflicts |-> engine.target_newer_conflicts])
    /\ UNCHANGED <<source_tree, target_tree, checksum_mode, beside_engine>>

MaxTouched == 1

\* While a run is between its first scan and its return another program
\* writes, creates or removes a file of one of the trees; what it writes
\* has the time of the write.  (A write before the first scan is one of
\* the trees the run can start with.)
external_write ==
    /\ engine.touched < MaxTouched
    /\ engine.pc \in {"compare", "copy"}
    /\ \E path \in EnginePaths :
       \E meta \in {File(s, Now, h) : s \in 1..MaxSize, h \in 1..MaxHash} \cup {Missing} :
          \/ /\ meta # source_tree[path]
             /\ source_tree' = [source_tree EXCEPT ![path] = meta]
             /\ UNCHANGED target_tree
          \/ /\ meta # target_tree[path]
             /\ target_tree' = [target_tree EXCEPT ![path] = meta]
             /\ UNCHANGED source_tree
    /\ engine' = [engine EXCEPT !.touched = @ + 1]
    /\ UNCHANGED <<checksum_mode, beside_engine>>

\* The engine alone with the trees: every pair of trees, with and without
\* checksum_mode.
InitEngine ==
    /\ AppInit
    /\ config_rest
    /\ safe_copy_rest
    /\ orphan_rest
    /\ debounce_rest
    /\ validate_rest
    /\ source_tree \in [EnginePaths -> FileMetadata]
    /\ target_tree \in [EnginePaths -> FileMetadata]
    /\ checksum_mode \in BOOLEAN
    /\ engine = EngineStart(1, 0, NoRun)

NextEngine ==
    \/ engine_target_newer_conflicts
    \/ engine_sync_files_compared
    \/ engine_copy
    \/ engine_sync_files_returned
    \/ engine_run_again

SpecEngine == InitEngine /\ [][NextEngine]_vars

\* The engine and another program on trees that start with one path.
InitTouched ==
    /\ InitEngine
    /\ \E path \in EnginePaths :
          \A other \in EnginePaths \ {path} :
              source_tree[other] = Missing /\ target_tree[other] = Missing

NextTouched == NextEngine \/ external_write

SpecTouched == InitTouched /\ [][NextTouched]_vars

----------------------------------------------------------------------------
\* Orphan deletion on the file system.  A path is the sequence of its
\* components; an absolute path starts with the root component.  fs maps
\* the absolute paths of a small file system to what they hold: nothing, a
\* file, a directory, or a symbolic link and the absolute path it names.

RootDir == "/"

ParentDir == ".."

Target == <<RootDir, "T">>

Outside == <<RootDir, "O">>

FsPaths ==
    {<<RootDir>>, Target, Target \o <<"f">>, Target \o <<"d">>, Target \o <<"d", "f">>,
     Target \o <<"l">>, Outside, Outside \o <<"g">>}

Nothing == [kind |-> "nothing", to |-> <<>>]

Dir == [kind |-> "dir", to |-> <<>>]

Plain == [kind |-> "file", to |-> <<>>]

Link(to) == [kind |-> "link", to |-> to]

\* What the link of the target directory can name: a file or a directory
\* of the target, a directory or a file outside it, or nothing.
LinkDestinations ==
    {Target \o <<"f">>, Target \o <<"d">>, Outside, Outside \o <<"g">>, Target \o <<"x">>}

Holds(on, path) == IF path \in DOMAIN on THEN on[path] ELSE Nothing

StartsWith(path, base) ==
    Len(base) <= Len(path) /\ SubSeq(path, 1, Len(base)) = base

MaxLinks == 2

\* tokio::fs::canonicalize on the file system on: the components are
\* followed from the root, a link is replaced by the path it names; <<>>
\* stands for Err.
RECURSIVE Resolve(_, _, _, _)
Resolve(on, done, rest, links) ==
    IF rest = <<>> THEN done
    ELSE LET next == Append(done, Head(rest))
             held == Holds(on, next)
         IN  CASE held.kind = "nothing" -> <<>>
               [] held.kind = "file" -> IF Tail(rest) = <<>> THEN next ELSE <<>>
               [] held.kind = "dir" -> Resolve(on, next, Tail(rest), links)
               [] held.kind = "link" ->
                    IF links = 0 THEN <<>>
                    ELSE Resolve(on, <<RootDir>>, Tail(held.to) \o Tail(rest), links - 1)

canonicalize(path) == Resolve(fs, <<RootDir>>, Tail(path), MaxLinks)

\* Path::exists follows links.
exists(path) == canonicalize(path) # <<>>

is_absolute(path) == path # <<>> /\ Head(path) = RootDir

has_parent_dir(path) == \E i \in DOMAIN path : path[i] = ParentDir

\* Path::join of a path that is not absolute.
join(base, relative) == IF is_absolute(relative) THEN relative ELSE base \o relative

\* The paths a command can be called with.
RelativePaths ==
    {<<>>, <<"f">>, <<"d">>, <<"d", "f">>, <<"l">>, <<"x">>,
     <<ParentDir, "O", "g">>, <<"d", ParentDir, "f">>, Outside \o <<"g">>, Target \o <<"f">>}

MaxPaths == 2

\* The command at its start; skipped and removed are the history of the
\* requests counted as skipped and of the paths removed, fs_before the
\* file system the command started on.
OrphanStart(paths, on) ==
    [pc |-> "filter", paths |-> paths, fs_before |-> on, relative_paths |-> <<>>, invalid_count |-> 0,
     next |-> 1, canonical_targets |-> <<>>, skipped_count |-> 0, skipped |-> {},
     failures |-> {}, deleted_files_count |-> 0, deleted_dirs_count |-> 0,
     removed |-> {}, returned |-> "none"]

\* What a step of the command leaves alone.
beside_orphan == <<app_vars, safe_copy_vars, engine_vars, debounce_vars, validate_vars,
    config_vars>>

\* delete_orphan_files: the loop over the raw paths.  relative_paths keeps
\* the index of each path in paths.
delete_orphan_files ==
    /\ orphan.pc = "filter"
    /\ LET invalid == {i \in DOMAIN orphan.paths :
                          is_absolute(orphan.paths[i]) \/ has_parent_dir(orphan.paths[i])}
           Kept(i) == i \notin invalid
       IN  orphan' = [orphan EXCEPT
              !.pc = "check",
              !.relative_paths = SelectSeq([i \in DOMAIN orphan.paths |-> i], Kept),
              !.invalid_count = Cardinality(invalid),
              !.skipped = invalid]
    /\ UNCHANGED <<fs, beside_orphan>>

outside_never(canonical, target_canonical) == FALSE

\* if !canonical.starts_with(&target_canonical)
outside(canonical, target_canonical) == ~StartsWith(canonical, target_canonical)

\* delete_orphan_paths: one turn of the loop over relative_paths.
delete_orphan_paths_check ==
    /\ orphan.pc = "check"
    /\ orphan.next <= Len(orphan.relative_paths)
    /\ LET i == orphan.relative_paths[orphan.next]
           relative == orphan.paths[i]
           target_canonical == canonicalize(Target)
           full_path == join(target_canonical, relative)
           canonical == canonicalize(full_path)
           skip == [orphan EXCEPT !.next = @ + 1, !.skipped_count = @ + 1,
                                  !.skipped = @ \cup {i}]
       IN  orphan' =
              IF is_absolute(relative) \/ has_parent_dir(relative) THEN skip
              ELSE IF ~exists(full_path) THEN skip
              ELSE IF outside(canonical, target_canonical) THEN skip
              ELSE [orphan EXCEPT
                       !.next = @ + 1,
                       !.canonical_targets =
                           Append(@, [index |-> i, relative |-> relative,
                                      canonical |-> canonical])]
    /\ UNCHANGED <<fs, beside_orphan>>

MaxComponents == 3

\* sort_by on the number of components of the relative path, which is
\* stable.
RECURSIVE SortedFrom(_, _)
SortedFrom(targets, count) ==
    IF count > MaxComponents THEN <<>>
    ELSE LET Has(t) == Len(t.relative) = count
         IN  SelectSeq(targets, Has) \o SortedFrom(targets, count + 1)

RECURSIVE SortedDownFrom(_, _)
SortedDownFrom(targets, count) ==
    IF count < 0 THEN <<>>
    ELSE LET Has(t) == Len(t.relative) = count
         IN  SelectSeq(targets, Has) \o SortedDownFrom(targets, count - 1)

\* relative == kept_relative, or strip_prefix leaves something.
is_covered(relative, kept) ==
    \E i \in DOMAIN kept : StartsWith(relative, kept[i].relative)

RECURSIVE Reduced(_, _)
Reduced(targets, kept) ==
    IF targets = <<>> THEN kept
    ELSE Reduced(Tail(targets),
                 IF is_covered(Head(targets).relative, kept) THEN kept
                 ELSE Append(kept, Head(targets)))

\* The loop is over; the targets are sorted, reduced and sorted again.
delete_orphan_paths_reduce ==
    /\ orphan.pc = "check"
    /\ orphan.next > Len(orphan.relative_paths)
    /\ orphan' = [orphan EXCEPT
          !.pc = "remove",
          !.next = 1,
          !.canonical_targets =
              SortedDownFrom(Reduced(SortedFrom(@, 0), <<>>), MaxComponents)]
    /\ UNCHANGED <<fs, beside_orphan>>

\* The paths at or under a path that hold something.
Under(path) == {q \in DOMAIN fs : StartsWith(q, path) /\ fs[q].kind # "nothing"}

\* One turn of the loop over reduced_targets: remove_dir_all or
\* remove_file on the canonical path, which may fail.
delete_orphan_paths_remove ==
    /\ orphan.pc = "remove"
    /\ orphan.next <= Len(orphan.canonical_targets)
    /\ LET t == orphan.canonical_targets[orphan.next]
           metadata == Holds(fs, t.canonical)
           gone == IF metadata.kind = "dir" THEN Under(t.canonical) ELSE {t.canonical}
           dirs == {q \in gone : fs[q].kind = "dir"}
       IN  IF metadata.kind = "nothing"
           THEN /\ orphan' = [orphan EXCEPT !.next = @ + 1, !.skipped_count = @ + 1,
                                            !.skipped = @ \cup {t.index}]
                /\ UNCHANGED fs
           ELSE \/ /\ orphan' = [orphan EXCEPT !.next = @ + 1,
                                               !.failures = @ \cup {t.index}]
                   /\ UNCHANGED fs
                \/ /\ fs' = [q \in DOMAIN fs |-> IF q \in gone THEN Nothing ELSE fs[q]]
                   /\ orphan' = [orphan EXCEPT
                         !.next = @ + 1,
                         !.removed = @ \cup gone,
                         !.deleted_dirs_count = @ + Cardinality(dirs),
                         !.deleted_files_count = @ + Cardinality(gone \ dirs)]
    /\ UNCHANGED beside_orphan

\* Ok(DeleteOrphanResult) and result.skipped_count += invalid_count
delete_orphan_files_returned ==
    /\ orphan.pc = "remove"
    /\ orphan.next > Len(orphan.canonical_targets)
    /\ orphan' = [orphan EXCEPT !.pc = "done", !.returned = "Ok",
                                !.skipped_count = @ + orphan.invalid_count]
    /\ UNCHANGED <<fs, beside_orphan>>

InitOrphan ==
    /\ AppInit
    /\ config_rest
    /\ safe_copy_rest
    /\ engine_rest
    /\ debounce_rest
    /\ validate_rest
    /\ \E f, df \in {Plain, Nothing} :
       \E l \in {Nothing} \cup {Link(to) : to \in LinkDestinations} :
          fs = [path \in FsPaths |->
                   CASE path = Target \o <<"f">> -> f
                     [] path = Target \o <<"d", "f">> -> df
                     [] path = Target \o <<"l">> -> l
                     [] path = Outside \o <<"g">> -> Plain
                     [] OTHER -> Dir]
    /\ \E n \in 1..MaxPaths : \E paths \in [1..n -> RelativePaths] :
          orphan = OrphanStart(paths, fs)

NextOrphan ==
    \/ delete_orphan_files
    \/ delete_orphan_paths_check
    \/ delete_orphan_paths_reduce
    \/ delete_orphan_paths_remove
    \/ delete_orphan_files_returned

SpecOrphan == InitOrphan /\ [][NextOrphan]_vars

----------------------------------------------------------------------------
\* The watcher of one task: the callback of the notify watcher, which
\* sends to a bounded channel, the debounce thread, which receives from
\* it, and stop_watching.  A timeout of recv_timeout is a step of the
\* thread that can be taken when the channel is empty and its sender
\* lives: the debounce time has passed without an event.

\* The channel's capacity (100 in the source).
ChannelCapacity == 2

MaxEvents == 3

WatchedPaths == {"p", "q"}

EventKinds == {"Create", "Modify", "Remove", "Access"}

Event(kind, paths) == [kind |-> kind, paths |-> paths]

\* What a step of the watcher leaves alone.
beside_debounce == <<app_vars, safe_copy_vars, engine_vars, orphan_vars, validate_vars,
    config_vars>>

\* start_watching has returned: the map has the watcher, its token is not
\* cancelled, the thread is at the top of its loop.
Watching == [in_map |-> TRUE, cancelled |-> FALSE, sender |-> TRUE,
             stopped |-> FALSE, events |-> 0]

DebounceStart == [pc |-> "outer", paths |-> {}, kind |-> "none"]

\* The callback of the notify watcher: an event of the kinds Create,
\* Modify and Remove is sent with try_send, which drops it when the
\* channel is full; an event of another kind is passed over.
notify_event ==
    /\ watching.sender
    /\ watching.events < MaxEvents
    /\ \E kind \in EventKinds : \E paths \in (SUBSET WatchedPaths) \ {{}} :
          channel' = IF kind \in {"Create", "Modify", "Remove"}
                        /\ Len(channel) < ChannelCapacity
                     THEN Append(channel, Event(kind, paths))
                     ELSE channel
    /\ watching' = [watching EXCEPT !.events = @ + 1]
    /\ UNCHANGED <<debounce, on_change, burst, beside_debounce>>

\* if token_clone.is_cancelled() { break; } at the top of the outer loop
debounce_outer_check ==
    /\ debounce.pc = "outer"
    /\ debounce' = [debounce EXCEPT !.pc = IF watching.cancelled THEN "exited"
                                           ELSE "outer_recv"]
    /\ UNCHANGED <<channel, watching, on_change, burst, beside_debounce>>

kind_of_first(kind, event) == IF kind = "none" THEN event.kind ELSE kind

\* kind = event.kind
kind_after(kind, event) == event.kind

\* The thread takes an event from the channel.
Received(event) ==
    [debounce EXCEPT !.pc = "inner",
                     !.paths = @ \cup event.paths,
                     !.kind = kind_after(@, event)]

\* rx.recv_timeout(debounce_time) for the first event
debounce_outer_recv ==
    /\ debounce.pc = "outer_recv"
    /\ IF channel # <<>>
       THEN /\ debounce' = Received(Head(channel))
            /\ channel' = Tail(channel)
            /\ burst' = <<Head(channel)>>
       ELSE /\ debounce' = [debounce EXCEPT !.pc = IF watching.sender THEN "outer"
                                                   ELSE "exited"]
            /\ UNCHANGED <<channel, burst>>
    /\ UNCHANGED <<watching, on_change, beside_debounce>>

\* if token_clone.is_cancelled() { return; } at the top of the inner loop
debounce_inner_check ==
    /\ debounce.pc = "inner"
    /\ debounce' = [debounce EXCEPT !.pc = IF watching.cancelled THEN "exited"
                                           ELSE "inner_recv"]
    /\ UNCHANGED <<channel, watching, on_change, burst, beside_debounce>>

\* rx.recv_timeout(debounce_time) in the inner loop: an event, a timeout
\* or a closed channel.
debounce_inner_recv ==
    /\ debounce.pc = "inner_recv"
    /\ IF channel # <<>>
       THEN /\ debounce' = Received(Head(channel))
            /\ channel' = Tail(channel)
            /\ burst' = Append(burst, Head(channel))
       ELSE /\ debounce' = [debounce EXCEPT !.pc = IF watching.sender THEN "timeout"
                                                   ELSE "exited"]
            /\ UNCHANGED <<channel, burst>>
    /\ UNCHANGED <<watching, on_change, beside_debounce>>

\* The Timeout arm: on_change(synthetic_event) if paths is not empty, and
\* back to the outer loop.
debounce_timeout ==
    /\ debounce.pc = "timeout"
    /\ on_change' = IF debounce.paths = {} THEN on_change
                    ELSE Append(on_change, [event |-> Event(debounce.kind, debounce.paths),
                                            received |-> burst,
                                            stopped |-> watching.stopped])
    /\ debounce' = DebounceStart
    /\ burst' = <<>>
    /\ UNCHANGED <<channel, watching, beside_debounce>>

\* stop_watching: the watcher is removed from the map, its token is
\* cancelled, the thread's handle is dropped without a join, and the
\* function returns.
stop_watching ==
    /\ watching.in_map
    /\ watching' = [watching EXCEPT !.in_map = FALSE, !.cancelled = TRUE,
                                    !.stopped = TRUE]
    /\ UNCHANGED <<channel, debounce, on_change, burst, beside_debounce>>

\* The watcher removed from the map is dropped, and with it the notify
\* watcher and the sender its callback holds.
sender_dropped ==
    /\ watching.stopped
    /\ watching.sender
    /\ watching' = [watching EXCEPT !.sender = FALSE]
    /\ UNCHANGED <<channel, debounce, on_change, burst, beside_debounce>>

InitDebounce ==
    /\ AppInit
    /\ config_rest
    /\ safe_copy_rest
    /\ engine_rest
    /\ orphan_rest
    /\ validate_rest
    /\ channel = <<>>
    /\ debounce = DebounceStart
    /\ watching = Watching
    /\ on_change = <<>>
    /\ burst = <<>>

\* The steps of the debounce thread.
Debounce ==
    \/ debounce_outer_check
    \/ debounce_outer_recv
    \/ debounce_inner_check
    \/ debounce_inner_recv
    \/ debounce_timeout

\* A watcher that is not stopped.
NextDebounce ==
    \/ notify_event
    \/ debounce_outer_check
    \/ debounce_outer_recv
    \/ debounce_inner_check
    \/ debounce_inner_recv
    \/ debounce_timeout

\* The thread is an operating system thread: it runs when it can.
SpecDebounce == InitDebounce /\ [][NextDebounce]_vars /\ WF_vars(Debounce)

\* A watcher that can be stopped.
NextWatcher ==
    \/ NextDebounce
    \/ stop_watching
    \/ sender_dropped

SpecWatcher == InitDebounce /\ [][NextWatcher]_vars /\ WF_vars(Debounce)

----------------------------------------------------------------------------
\* The validation of a configuration's tasks.  A path is the sequence of
\* its characters, so that the tests of path_key_for_compare and
\* is_same_or_subpath are tests on strings as in the source.

TaskIds == {"x", "y"}

RawPaths ==
    {<<"/">>, <<"/", "a">>, <<"/", "a", "/">>, <<"/", "A">>, <<"/", "a", "/", "b">>,
     <<"/", "a", "b">>, <<"/", "t">>}

RuntimeSyncTask ==
    [id : TaskIds, source : RawPaths, target : RawPaths, watch_mode : BOOLEAN]

MaxTasks == 2

\* while key.ends_with('/') && key.len() > 1 { key.pop(); }
RECURSIVE TrimmedOfSlashes(_)
TrimmedOfSlashes(key) ==
    IF Len(key) > 1 /\ key[Len(key)] = "/"
    THEN TrimmedOfSlashes(SubSeq(key, 1, Len(key) - 1))
    ELSE key

to_lowercase(key) == [i \in DOMAIN key |-> IF key[i] = "A" THEN "a" ELSE key[i]]

path_key_for_compare(path) == to_lowercase(TrimmedOfSlashes(path))

is_same_or_subpath(parent, child) ==
    \/ parent = child
    \/ /\ StartsWith(child, parent)
       /\ Len(child) > Len(parent)
       /\ child[Len(parent) + 1] = "/"

is_path_overlap(a, b) == is_same_or_subpath(a, b) \/ is_same_or_subpath(b, a)

source_key(task) == path_key_for_compare(task.source)

target_key(task) == path_key_for_compare(task.target)

\* validate_runtime_tasks: the three loops in their order; the first rule
\* that fails is the error returned.
validate_runtime_tasks(tasks) ==
    IF \E i \in DOMAIN tasks : is_path_overlap(source_key(tasks[i]), target_key(tasks[i]))
    THEN "Err(overlapping source/target paths)"
    ELSE IF \E left, right \in DOMAIN tasks :
               /\ left < right
               /\ is_path_overlap(target_key(tasks[left]), target_key(tasks[right]))
    THEN "Err(Target path conflict)"
    ELSE IF \E watch_task, other \in DOMAIN tasks :
               /\ tasks[watch_task].watch_mode
               /\ tasks[other].id # tasks[watch_task].id
               /\ is_path_overlap(target_key(tasks[other]), source_key(tasks[watch_task]))
    THEN "Err(Watch loop risk)"
    ELSE "Ok"

\* What a step of the validation leaves alone.
beside_validate == <<app_vars, safe_copy_vars, engine_vars, orphan_vars, debounce_vars,
    config_vars>>

\* runtime_set_config: validate_runtime_tasks(&payload.tasks)? and then
\* *config = payload.
set_config_tasks ==
    /\ set_config_returned = "none"
    /\ LET validated == validate_runtime_tasks(payload_tasks)
       IN  /\ set_config_returned' = validated
           /\ stored_tasks' = IF validated = "Ok" THEN payload_tasks ELSE stored_tasks
    /\ UNCHANGED <<payload_tasks, beside_validate>>

\* runtime_set_config is called with any payload of up to MaxTasks tasks.
InitValidate ==
    /\ AppInit
    /\ config_rest
    /\ safe_copy_rest
    /\ engine_rest
    /\ orphan_rest
    /\ debounce_rest
    /\ \E n \in 1..MaxTasks : payload_tasks \in [1..n -> RuntimeSyncTask]
    /\ stored_tasks = <<>>
    /\ set_config_returned = "none"

NextValidate == set_config_tasks

SpecValidate == InitValidate /\ [][NextValidate]_vars

----------------------------------------------------------------------------
\* runtime_set_config and reconcile_runtime_watchers await by await, with
\* the commands start_watch and stop_watch.  A path is the sequence of its
\* characters; "U" stands for the token "[UUID:..]" of a source on a
\* removable volume.

UuidToken == "U"

\* volume.mount_point of the one removable volume.
MountPoint == <<"/", "m">>

\* parse_uuid_source_path and has_uuid_source_prefix.
has_uuid_source_prefix(path) == path # <<>> /\ path[1] = UuidToken

\* sub_path.trim_start_matches('/')
RECURSIVE trim_start_matches(_)
trim_start_matches(path) ==
    IF path # <<>> /\ path[1] = "/" THEN trim_start_matches(Tail(path)) ELSE path

\* resolve_path_with_uuid: a path without the token is returned as it is;
\* one with the token is the mount point joined with the rest, or an error
\* when the volume is not mounted.
resolve_path_with_uuid(path, mounted) ==
    IF ~has_uuid_source_prefix(path) THEN [ok |-> TRUE, path |-> path]
    ELSE IF ~mounted THEN [ok |-> FALSE, path |-> path]
    ELSE [ok |-> TRUE, path |-> MountPoint \o <<"/">> \o trim_start_matches(Tail(path))]

\* resolved_path_key, without path_key_for_compare: the path the key is
\* made of.
resolved_path(path, mounted) ==
    LET resolved == resolve_path_with_uuid(path, mounted)
    IN  IF resolved.ok THEN resolved.path ELSE path

\* validate_task_id: not empty, only alphanumeric, hyphen, underscore (the
\* ids of the model other than the empty one are alphanumeric).
validate_task_id(task_id) == task_id # ""

\* validate_path_argument: no shell metacharacter.
validate_path_argument(path) == \A i \in DOMAIN path : path[i] # ";"

\* validate_exclude_patterns: no pattern holds "..".
validate_exclude_patterns(patterns) ==
    \A i \in DOMAIN patterns :
        ~\E k \in 1..(Len(patterns[i]) - 1) :
            patterns[i][k] = "." /\ patterns[i][k + 1] = "."

\* The validation of runtime_set_config and of reconcile_runtime_watchers:
\* per task the id and the two paths, validate_runtime_tasks over the
\* resolved paths, then the patterns of every exclusion set.
validate_payload(payload, mounted) ==
    LET tasks == payload.tasks
        resolved == [i \in DOMAIN tasks |->
                        [tasks[i] EXCEPT !.source = resolved_path(tasks[i].source, mounted),
                                         !.target = resolved_path(tasks[i].target, mounted)]]
    IN  IF \E i \in DOMAIN tasks : ~validate_task_id(tasks[i].id)
        THEN "Err(Task ID)"
        ELSE IF \E i \in DOMAIN tasks :
                   \/ ~validate_path_argument(tasks[i].source)
                   \/ ~validate_path_argument(tasks[i].target)
        THEN "Err(Path contains shell metacharacters)"
        ELSE IF validate_runtime_tasks(resolved) # "Ok"
        THEN validate_runtime_tasks(resolved)
        ELSE IF \E i \in DOMAIN payload.exclusion_sets :
                   ~validate_exclude_patterns(payload.exclusion_sets[i].patterns)
        THEN "Err(Pattern contains path traversal)"
        ELSE "Ok"

ConfigTask(id, source, target, watch_mode) ==
    [id |-> id, source |-> source, target |-> target, watch_mode |-> watch_mode,
     auto_unmount |-> FALSE]

RuntimeConfigPayload(tasks, exclusion_sets) ==
    [tasks |-> tasks, exclusion_sets |-> exclusion_sets]

\* RuntimeConfigPayload::default()
DefaultPayload == RuntimeConfigPayload(<<>>, <<>>)

\* The payloads the frontend sends: task t2 watched, watched from another
\* source, not watched; t2 and t3 watched; t2 watched on the removable
\* volume with a target that holds the mount point; and four payloads that
\* are refused whatever is mounted.
WatchedPayloads ==
    {RuntimeConfigPayload(<<ConfigTask("t2", <<"/", "a">>, <<"/", "t">>, TRUE)>>, <<>>),
     RuntimeConfigPayload(<<ConfigTask("t2", <<"/", "b">>, <<"/", "t">>, TRUE)>>, <<>>),
     RuntimeConfigPayload(<<ConfigTask("t2", <<"/", "a">>, <<"/", "t">>, TRUE),
                            ConfigTask("t3", <<"/", "b">>, <<"/", "v">>, TRUE)>>, <<>>)}

UnwatchedPayloads ==
    {RuntimeConfigPayload(<<ConfigTask("t2", <<"/", "a">>, <<"/", "t">>, FALSE)>>, <<>>)}

VolumePayloads ==
    {RuntimeConfigPayload(<<ConfigTask("t2", <<UuidToken, "/", "a">>, <<"/", "m">>, TRUE)>>,
                          <<>>)}

RefusedPayloads ==
    {RuntimeConfigPayload(<<ConfigTask("", <<"/", "a">>, <<"/", "t">>, TRUE)>>, <<>>),
     RuntimeConfigPayload(<<ConfigTask("t2", <<"/", "a", ";">>, <<"/", "t">>, TRUE)>>, <<>>),
     RuntimeConfigPayload(<<ConfigTask("t2", <<"/", "a">>, <<"/", "a", "/", "b">>, TRUE)>>,
                          <<>>),
     RuntimeConfigPayload(<<ConfigTask("t2", <<"/", "a">>, <<"/", "t">>, TRUE)>>,
                          <<[patterns |-> <<<<".", ".", "/", "x">>>>]>>)}

ConfigPayloads == WatchedPayloads \cup UnwatchedPayloads \cup VolumePayloads \cup RefusedPayloads

\* The paths a watcher is asked to watch, resolved.
WatchPaths == {<<"/", "a">>, <<"/", "b">>, <<"/", "m", "/", "a">>}

\* runtime_desired_watch_sources(tasks): the id and source of the
\* watch_mode tasks; of two tasks with one id the later one stays.
runtime_desired_watch_sources(tasks) ==
    LET ids == {tasks[i].id : i \in {k \in DOMAIN tasks : tasks[k].watch_mode}}
        last_of(id) == CHOOSE i \in DOMAIN tasks :
                          /\ tasks[i].watch_mode /\ tasks[i].id = id
                          /\ \A k \in DOMAIN tasks :
                                tasks[k].watch_mode /\ tasks[k].id = id => k <= i
    IN  [id \in ids |-> tasks[last_of(id)].source]

\* The watch_mode ids of a task list in payload order, as
\* enqueue_initial_runtime_watch_syncs goes through them.
watch_mode_order(tasks) ==
    LET watched == SelectSeq(tasks, LAMBDA task : task.watch_mode)
    IN  [i \in DOMAIN watched |-> watched[i].id]

\* WatcherManager::start_watching under the manager's write lock: a
\* watcher of the same id is stopped first; the new one is in the map only
\* when notify could place the watch.
start_watching(manager, task_id, source_path, unwatched) ==
    IF source_path \in unwatched
    THEN [ok |-> FALSE, watchers |-> manager \ {task_id}]
    ELSE [ok |-> TRUE, watchers |-> manager \cup {task_id}]

\* start_watch_internal: resolve the source, validate the id and the path,
\* then start_watching.
start_watch_internal(manager, task_id, source_path, mounted, unwatched) ==
    LET resolved == resolve_path_with_uuid(source_path, mounted)
    IN  IF ~resolved.ok THEN [ok |-> FALSE, watchers |-> manager]
        ELSE IF ~validate_task_id(task_id) \/ ~validate_path_argument(resolved.path)
        THEN [ok |-> FALSE, watchers |-> manager]
        ELSE start_watching(manager, task_id, resolved.path, unwatched)

\* What a step of the configuration leaves alone beneath the application.
beside_config == <<safe_copy_vars, engine_vars, orphan_vars, debounce_vars, payload_tasks,
                   set_config_returned>>

\* What no step of the configuration touches: the runs, the slots, the
\* dispatcher flag and the conflict review.
config_untouched == <<syncing_tasks, runtime_dispatcher_running, slot_permit, cancel_tokens,
                      log, conflict_review_sessions, conflict_review_seq,
                      target_newer_conflicts, diffs, unmount_requests, beside_config>>

ConfigSilent ==
    /\ last' = Quiet /\ reply' = NoReply /\ emitted' = {} /\ file_ops' = <<>>
    /\ UNCHANGED config_untouched

\* The environment of the configuration.
config_env == <<volume_mounted, unwatchable>>

\* The stored configuration.
config_stored == <<runtime_config, auto_unmount, stored_tasks, stored_exclusion_sets>>

\* The source map.
config_sources == <<runtime_watch_sources, watch_source_paths>>

\* The queue as the frontend and the history see it.
config_queue == <<queue_vars, ui_queued, enqueue_order>>

\* The locals of a runtime_set_config call that has passed its validation.
\*   wrote: it has replaced the stored configuration;
\*   todo: the desired ids it has still to start, stops: the managed ids it
\*   has still to stop, cur: the id in hand;
\*   touched: the ids whose watcher it has started or stopped;
\*   order: the ids it has enqueued initial syncs for, if it did.
ConfigCall(payload) ==
    [pc |-> "store", payload |-> payload, wrote |-> FALSE, desired |-> <<>>,
     watching_now |-> {}, managed_sources |-> <<>>, todo |-> {}, stops |-> {},
     cur |-> NoTask, touched |-> {}, bootstrap |-> FALSE, order |-> <<>>]

\* What the history keeps of a call that returned: its result, and the
\* watchers and the source map as they are when it returns.
ConfigReturn(payload, call, result) ==
    [payload |-> payload, result |-> result, wrote |-> call.wrote,
     touched |-> call.touched, bootstrap |-> call.bootstrap, order |-> call.order,
     watchers |-> watchers,
     sources |-> [t \in runtime_watch_sources |-> watch_source_paths[t]]]

ConfigCallsMade ==
    Len(config_returns) + Cardinality({c \in 1..MaxCalls : config_calls[c].pc # "rest"})

\* runtime_set_config, up to its first await: the payload is validated and
\* a refused one is returned as the error.
runtime_set_config_begin(c, payload) ==
    /\ config_calls[c].pc = "rest"
    /\ \A b \in 1..(c - 1) : config_calls[b].pc # "rest"
    /\ LET validated == validate_payload(payload, volume_mounted)
       IN  IF validated = "Ok"
           THEN /\ config_calls' = [config_calls EXCEPT ![c] = ConfigCall(payload)]
                /\ UNCHANGED config_returns
           ELSE /\ config_returns' =
                      Append(config_returns,
                             ConfigReturn(payload, ConfigCall(payload), validated))
                /\ UNCHANGED config_calls
    /\ ConfigSilent
    /\ UNCHANGED <<config_env, config_stored, config_sources, config_queue, watchers,
                   runtime_initial_watch_bootstrapped, procs>>

\* *config = payload, under the write lock of runtime_config.
runtime_set_config_store(c) ==
    LET call == config_calls[c]
    IN  /\ call.pc = "store"
        /\ stored_tasks' = call.payload.tasks
        /\ stored_exclusion_sets' = call.payload.exclusion_sets
        /\ runtime_config' = DOMAIN runtime_desired_watch_sources(call.payload.tasks)
        /\ auto_unmount' = {call.payload.tasks[i].id :
                               i \in {k \in DOMAIN call.payload.tasks :
                                         call.payload.tasks[k].auto_unmount}}
        /\ config_calls' = [config_calls EXCEPT ![c].pc = "read_config", ![c].wrote = TRUE]
        /\ ConfigSilent
        /\ UNCHANGED <<config_env, config_sources, config_queue, watchers,
                       runtime_initial_watch_bootstrapped, procs, config_returns>>

\* reconcile_runtime_watchers: the stored configuration is cloned under
\* the read lock and validated again; an error ends the call.
reconcile_read_config(c) ==
    LET call == config_calls[c]
        runtime_config_clone == RuntimeConfigPayload(stored_tasks, stored_exclusion_sets)
        validated == validate_payload(runtime_config_clone, volume_mounted)
    IN  /\ call.pc = "read_config"
        /\ IF validated = "Ok"
           THEN /\ config_calls' =
                      [config_calls EXCEPT
                          ![c].pc = "read_watching",
                          ![c].desired = runtime_desired_watch_sources(stored_tasks)]
                /\ UNCHANGED config_returns
           ELSE /\ config_returns' =
                      Append(config_returns, ConfigReturn(call.payload, call, validated))
                /\ config_calls' = [config_calls EXCEPT ![c] = NoCall]
        /\ ConfigSilent
        /\ UNCHANGED <<config_env, config_stored, config_sources, config_queue, watchers,
                       runtime_initial_watch_bootstrapped, procs>>

\* watching_now: manager.get_watching_tasks() under the read lock.
reconcile_read_watching(c) ==
    /\ config_calls[c].pc = "read_watching"
    /\ config_calls' = [config_calls EXCEPT ![c].pc = "read_sources",
                                            ![c].watching_now = watchers]
    /\ ConfigSilent
    /\ UNCHANGED <<config_env, config_stored, config_sources, config_queue, watchers,
                   runtime_initial_watch_bootstrapped, procs, config_returns>>

\* A reconciliation that starts every desired watcher anew.
needs_start_always(call, managed_sources, task_id) == TRUE

\* if !is_managed || !is_watching || source_changed
needs_start(call, managed_sources, task_id) ==
    \/ task_id \notin DOMAIN managed_sources
    \/ task_id \notin call.watching_now
    \/ managed_sources[task_id] # call.desired[task_id]

\* Where a call goes on once the id in hand is done: the next desired id
\* to start, the next managed id to stop, or the bootstrap.
reconcile_next(todo, stops) ==
    IF todo # {} THEN "start" ELSE IF stops # {} THEN "stop" ELSE "bootstrap"

\* The call once the id in hand is done; the snapshots of
\* reconcile_runtime_watchers end with it.
reconcile_proceed(call) ==
    LET next == reconcile_next(call.todo, call.stops)
    IN  IF next = "bootstrap"
        THEN [call EXCEPT !.pc = next, !.cur = NoTask, !.desired = <<>>,
                          !.watching_now = {}, !.managed_sources = <<>>]
        ELSE [call EXCEPT !.pc = next, !.cur = NoTask]

\* managed_sources: sources.clone() under the read lock.  What the two
\* loops will do follows from the three snapshots.
reconcile_read_sources(c) ==
    LET call == config_calls[c]
        managed_sources == [t \in runtime_watch_sources |-> watch_source_paths[t]]
        todo == {t \in DOMAIN call.desired : needs_start(call, managed_sources, t)}
        stops == DOMAIN managed_sources \ DOMAIN call.desired
    IN  /\ call.pc = "read_sources"
        /\ config_calls' =
              [config_calls EXCEPT
                  ![c] = reconcile_proceed([call EXCEPT !.managed_sources = managed_sources,
                                                        !.todo = todo,
                                                        !.stops = stops])]
        /\ ConfigSilent
        /\ UNCHANGED <<config_env, config_stored, config_sources, config_queue, watchers,
                       runtime_initial_watch_bootstrapped, procs, config_returns>>

\* start_watch_internal(task_id, source, runtime_owned = true) for a
\* desired id, in the order of the HashMap.
reconcile_start(c) ==
    LET call == config_calls[c]
    IN  /\ call.pc = "start"
        /\ \E task_id \in call.todo :
              LET started == start_watch_internal(watchers, task_id, call.desired[task_id],
                                                  volume_mounted, unwatchable)
              IN  /\ watchers' = started.watchers
                  /\ config_calls' =
                        [config_calls EXCEPT
                            ![c].pc = IF started.ok THEN "insert" ELSE "remove",
                            ![c].cur = task_id,
                            ![c].todo = call.todo \ {task_id},
                            ![c].touched = call.touched \cup {task_id}]
        /\ ConfigSilent
        /\ UNCHANGED <<config_env, config_stored, config_sources, config_queue,
                       runtime_initial_watch_bootstrapped, procs, config_returns>>

\* Ok(_): sources.insert(task_id, source)
reconcile_sources_insert(c) ==
    LET call == config_calls[c]
    IN  /\ call.pc = "insert"
        /\ runtime_watch_sources' = runtime_watch_sources \cup {call.cur}
        /\ watch_source_paths' = [watch_source_paths EXCEPT ![call.cur] = call.desired[call.cur]]
        /\ config_calls' = [config_calls EXCEPT ![c] = reconcile_proceed(call)]
        /\ ConfigSilent
        /\ UNCHANGED <<config_env, config_stored, config_queue, watchers,
                       runtime_initial_watch_bootstrapped, procs, config_returns>>

\* Err(err): sources.remove(task_id)
reconcile_sources_remove(c) ==
    LET call == config_calls[c]
    IN  /\ call.pc = "remove"
        /\ runtime_watch_sources' = runtime_watch_sources \ {call.cur}
        /\ watch_source_paths' = [watch_source_paths EXCEPT ![call.cur] = <<>>]
        /\ config_calls' = [config_calls EXCEPT ![c] = reconcile_proceed(call)]
        /\ ConfigSilent
        /\ UNCHANGED <<config_env, config_stored, config_queue, watchers,
                       runtime_initial_watch_bootstrapped, procs, config_returns>>

\* manager.stop_watching(task_id) for a managed id that is not desired.
reconcile_stop(c) ==
    LET call == config_calls[c]
    IN  /\ call.pc = "stop"
        /\ \E task_id \in call.stops :
              /\ watchers' = watchers \ {task_id}
              /\ config_calls' = [config_calls EXCEPT
                                     ![c].pc = "stop_sources",
                                     ![c].cur = task_id,
                                     ![c].stops = call.stops \ {task_id},
                                     ![c].touched = call.touched \cup {task_id}]
        /\ ConfigSilent
        /\ UNCHANGED <<config_env, config_stored, config_sources, config_queue,
                       runtime_initial_watch_bootstrapped, procs, config_returns>>

\* sources.remove(task_id)
reconcile_stop_sources(c) ==
    LET call == config_calls[c]
    IN  /\ call.pc = "stop_sources"
        /\ runtime_watch_sources' = runtime_watch_sources \ {call.cur}
        /\ watch_source_paths' = [watch_source_paths EXCEPT ![call.cur] = <<>>]
        /\ config_calls' = [config_calls EXCEPT ![c].pc = "stop_queued"]
        /\ ConfigSilent
        /\ UNCHANGED <<config_env, config_stored, config_queue, watchers,
                       runtime_initial_watch_bootstrapped, procs, config_returns>>

\* queued.remove(task_id)
reconcile_stop_queued(c) ==
    LET call == config_calls[c]
    IN  /\ call.pc = "stop_queued"
        /\ queued_sync_tasks' = queued_sync_tasks \ {call.cur}
        /\ config_calls' = [config_calls EXCEPT ![c].pc = "stop_queue"]
        /\ ConfigSilent
        /\ UNCHANGED <<config_env, config_stored, config_sources, runtime_sync_queue,
                       ui_queued, enqueue_order, watchers,
                       runtime_initial_watch_bootstrapped, procs, config_returns>>

\* queue.retain(|id| id != task_id), then the two events.
reconcile_stop_queue(c) ==
    LET call == config_calls[c]
    IN  /\ call.pc = "stop_queue"
        /\ runtime_sync_queue' = retain_other(runtime_sync_queue, call.cur)
        /\ enqueue_order' = retain_other(enqueue_order, call.cur)
        /\ ui_queued' = emit_runtime_sync_queue_state(ui_queued, call.cur, FALSE)
        /\ config_calls' = [config_calls EXCEPT ![c] = reconcile_proceed(call)]
        /\ ConfigSilent
        /\ UNCHANGED <<config_env, config_stored, config_sources, queued_sync_tasks,
                       watchers, runtime_initial_watch_bootstrapped, procs, config_returns>>

\* An exchange that succeeds whatever the flag holds.
compare_exchange_always(flag) == TRUE

\* compare_exchange(false, true, ..).is_ok(): the flag held false.
compare_exchange(flag) == ~flag

\* runtime_initial_watch_bootstrapped.compare_exchange(false, true, ..)
runtime_set_config_bootstrap(c) ==
    LET call == config_calls[c]
        exchanged == compare_exchange(runtime_initial_watch_bootstrapped)
    IN  /\ call.pc = "bootstrap"
        /\ runtime_initial_watch_bootstrapped' = TRUE
        /\ config_calls' = [config_calls EXCEPT
                               ![c].pc = IF exchanged THEN "initial" ELSE "state",
                               ![c].bootstrap = exchanged]
        /\ ConfigSilent
        /\ UNCHANGED <<config_env, config_stored, config_sources, config_queue, watchers,
                       procs, config_returns>>

\* enqueue_initial_runtime_watch_syncs: the stored configuration is cloned
\* and its watch_mode ids are enqueued one after the other.
enqueue_initial_runtime_watch_syncs(c) ==
    LET call == config_calls[c]
        order == watch_mode_order(stored_tasks)
    IN  /\ call.pc = "initial"
        /\ procs' = IF order # <<>> THEN Spawn(procs, Boot(order)) ELSE procs
        /\ config_calls' = [config_calls EXCEPT
                               ![c].pc = IF order # <<>> THEN "enqueueing" ELSE "state",
                               ![c].order = order]
        /\ ConfigSilent
        /\ UNCHANGED <<config_env, config_stored, config_sources, config_queue, watchers,
                       runtime_initial_watch_bootstrapped, config_returns>>

\* The last enqueue of enqueue_initial_runtime_watch_syncs has returned.
enqueue_initial_returned(c) ==
    /\ config_calls[c].pc = "enqueueing"
    /\ ~\E p \in Live : p.k = "boot"
    /\ config_calls' = [config_calls EXCEPT ![c].pc = "state"]
    /\ ConfigSilent
    /\ UNCHANGED <<config_env, config_stored, config_sources, config_queue, watchers,
                   runtime_initial_watch_bootstrapped, procs, config_returns>>

\* Ok(runtime_get_state_internal(..))
runtime_set_config_return(c) ==
    LET call == config_calls[c]
    IN  /\ call.pc = "state"
        /\ config_returns' = Append(config_returns, ConfigReturn(call.payload, call, "Ok"))
        /\ config_calls' = [config_calls EXCEPT ![c] = NoCall]
        /\ ConfigSilent
        /\ UNCHANGED <<config_env, config_stored, config_sources, config_queue, watchers,
                       runtime_initial_watch_bootstrapped, procs>>

\* The command start_watch: start_watch_internal with runtime_owned =
\* false; the source map is not written.
start_watch(task_id, source_path) ==
    /\ watchers' = start_watch_internal(watchers, task_id, source_path, volume_mounted,
                                        unwatchable).watchers
    /\ ConfigSilent
    /\ UNCHANGED <<config_env, config_stored, config_sources, config_queue,
                   runtime_initial_watch_bootstrapped, procs, config_calls, config_returns>>

\* The volume is mounted or unmounted.
volume_changed ==
    /\ volume_mounted' = ~volume_mounted
    /\ ConfigSilent
    /\ UNCHANGED <<unwatchable, config_stored, config_sources, config_queue, watchers,
                   runtime_initial_watch_bootstrapped, procs, config_calls, config_returns>>

\* A directory is removed or made again.
UnwatchablePaths == {<<"/", "b">>}

path_changed(path) ==
    /\ unwatchable' = IF path \in unwatchable THEN unwatchable \ {path}
                      ELSE unwatchable \cup {path}
    /\ ConfigSilent
    /\ UNCHANGED <<volume_mounted, config_stored, config_sources, config_queue, watchers,
                   runtime_initial_watch_bootstrapped, procs, config_calls, config_returns>>

\* One step of a runtime_set_config call in flight.
ConfigCallStep(c) ==
    \/ runtime_set_config_store(c)
    \/ reconcile_read_config(c)
    \/ reconcile_read_watching(c)
    \/ reconcile_read_sources(c)
    \/ reconcile_start(c)
    \/ reconcile_sources_insert(c)
    \/ reconcile_sources_remove(c)
    \/ reconcile_stop(c)
    \/ reconcile_stop_sources(c)
    \/ reconcile_stop_queued(c)
    \/ reconcile_stop_queue(c)
    \/ runtime_set_config_bootstrap(c)
    \/ enqueue_initial_runtime_watch_syncs(c)
    \/ enqueue_initial_returned(c)
    \/ runtime_set_config_return(c)

\* No runtime_set_config call and no stop_watch call is in flight.
CommandsIdle ==
    /\ \A c \in 1..MaxCalls : config_calls[c].pc = "rest"
    /\ ~\E p \in Live : p.k = "stop"

\* MaxCalls calls with any payloads, at once or one after the other, while
\* the volume is mounted and unmounted.  The initial enqueue goes as far as
\* the queue; the dispatcher is left out.
NextConfig ==
    \/ \E c \in 1..MaxCalls : \E payload \in ConfigPayloads :
          ConfigCallsMade < MaxCalls /\ runtime_set_config_begin(c, payload)
    \/ \E c \in 1..MaxCalls : runtime_set_config_store(c)
    \/ \E c \in 1..MaxCalls : reconcile_read_config(c)
    \/ \E c \in 1..MaxCalls : reconcile_read_watching(c)
    \/ \E c \in 1..MaxCalls : reconcile_read_sources(c)
    \/ \E c \in 1..MaxCalls : reconcile_start(c)
    \/ \E c \in 1..MaxCalls : reconcile_sources_insert(c)
    \/ \E c \in 1..MaxCalls : reconcile_sources_remove(c)
    \/ \E c \in 1..MaxCalls : reconcile_stop(c)
    \/ \E c \in 1..MaxCalls : reconcile_stop_sources(c)
    \/ \E c \in 1..MaxCalls : reconcile_stop_queued(c)
    \/ \E c \in 1..MaxCalls : reconcile_stop_queue(c)
    \/ \E c \in 1..MaxCalls : runtime_set_config_bootstrap(c)
    \/ \E c \in 1..MaxCalls : enqueue_initial_runtime_watch_syncs(c)
    \/ \E c \in 1..MaxCalls : enqueue_initial_returned(c)
    \/ \E c \in 1..MaxCalls : runtime_set_config_return(c)
    \/ volume_changed
    \/ \E p \in Live : enqueue_check(p)
    \/ \E p \in Live : enqueue_insert(p)
    \/ \E p \in Live : enqueue_push(p)

SpecConfig == Init /\ [][NextConfig]_vars

\* MaxCalls calls at once in an environment that does not change: every
\* source can be watched, every payload is accepted.
SerialPayloads == WatchedPayloads \cup UnwatchedPayloads

NextSerial ==
    \/ \E c \in 1..MaxCalls : \E payload \in SerialPayloads :
          ConfigCallsMade < MaxCalls /\ runtime_set_config_begin(c, payload)
    \/ \E c \in 1..MaxCalls : runtime_set_config_store(c)
    \/ \E c \in 1..MaxCalls : reconcile_read_config(c)
    \/ \E c \in 1..MaxCalls : reconcile_read_watching(c)
    \/ \E c \in 1..MaxCalls : reconcile_read_sources(c)
    \/ \E c \in 1..MaxCalls : reconcile_start(c)
    \/ \E c \in 1..MaxCalls : reconcile_sources_insert(c)
    \/ \E c \in 1..MaxCalls : reconcile_stop(c)
    \/ \E c \in 1..MaxCalls : reconcile_stop_sources(c)
    \/ \E c \in 1..MaxCalls : reconcile_stop_queued(c)
    \/ \E c \in 1..MaxCalls : reconcile_stop_queue(c)
    \/ \E c \in 1..MaxCalls : runtime_set_config_bootstrap(c)
    \/ \E c \in 1..MaxCalls : enqueue_initial_runtime_watch_syncs(c)
    \/ \E c \in 1..MaxCalls : enqueue_initial_returned(c)
    \/ \E c \in 1..MaxCalls : runtime_set_config_return(c)
    \/ \E p \in Live : enqueue_check(p)
    \/ \E p \in Live : enqueue_insert(p)
    \/ \E p \in Live : enqueue_push(p)

SpecSerial == Init /\ [][NextSerial]_vars

\* The commands one after the other: a command is called when the one
\* before it has returned.
MaxSetConfigs == 2

NextWatchers ==
    \/ \E payload \in ConfigPayloads :
          /\ CommandsIdle /\ ConfigCallsMade < MaxSetConfigs
          /\ runtime_set_config_begin(1, payload)
    \/ runtime_set_config_store(1)
    \/ reconcile_read_config(1)
    \/ reconcile_read_watching(1)
    \/ reconcile_read_sources(1)
    \/ reconcile_start(1)
    \/ reconcile_sources_insert(1)
    \/ reconcile_sources_remove(1)
    \/ reconcile_stop(1)
    \/ reconcile_stop_sources(1)
    \/ reconcile_stop_queued(1)
    \/ reconcile_stop_queue(1)
    \/ runtime_set_config_bootstrap(1)
    \/ enqueue_initial_runtime_watch_syncs(1)
    \/ enqueue_initial_returned(1)
    \/ runtime_set_config_return(1)
    \/ \E t \in WatchTasks : \E path \in WatchPaths : CommandsIdle /\ start_watch(t, path)
    \/ \E t \in WatchTasks : CommandsIdle /\ stop_watch(t)
    \/ \E p \in Live : stop_watch_queued(p)
    \/ \E p \in Live : stop_watch_queue(p)
    \/ \E p \in Live : stop_watch_watcher(p)
    \/ volume_changed
    \/ \E p \in Live : enqueue_check(p)
    \/ \E p \in Live : enqueue_insert(p)
    \/ \E p \in Live : enqueue_push(p)

SpecWatchers == Init /\ [][NextWatchers]_vars

----------------------------------------------------------------------------
\* Reconciliation run twice.  The commands go one after the other; the
\* last runtime_set_config call sends the payload of the call before it
\* again, and from the moment that call before it begins nothing else
\* happens to the watchers, the volume or the watched directories.

MaxPasses == 3

\* A command or a change of the environment that comes before the two
\* passes.
BeforePasses == CommandsIdle /\ ConfigCallsMade < MaxPasses - 1

\* The payload of the last pass is the payload of the pass before it.
PassPayload(payload) ==
    ConfigCallsMade = MaxPasses - 1 =>
        payload = config_returns[Len(config_returns)].payload

NextReconcile ==
    \/ \E payload \in ConfigPayloads :
          /\ CommandsIdle /\ ConfigCallsMade < MaxPasses /\ PassPayload(payload)
          /\ runtime_set_config_begin(1, payload)
    \/ runtime_set_config_store(1)
    \/ reconcile_read_config(1)
    \/ reconcile_read_watching(1)
    \/ reconcile_read_sources(1)
    \/ reconcile_start(1)
    \/ reconcile_sources_insert(1)
    \/ reconcile_sources_remove(1)
    \/ reconcile_stop(1)
    \/ reconcile_stop_sources(1)
    \/ reconcile_stop_queued(1)
    \/ reconcile_stop_queue(1)
    \/ runtime_set_config_bootstrap(1)
    \/ enqueue_initial_runtime_watch_syncs(1)
    \/ enqueue_initial_returned(1)
    \/ runtime_set_config_return(1)
    \/ \E t \in WatchTasks : \E path \in WatchPaths : BeforePasses /\ start_watch(t, path)
    \/ BeforePasses /\ volume_changed
    \/ \E path \in UnwatchablePaths : BeforePasses /\ path_changed(path)
    \/ \E p \in Live : enqueue_check(p)
    \/ \E p \in Live : enqueue_insert(p)
    \/ \E p \in Live : enqueue_push(p)

SpecReconcile == Init /\ [][NextReconcile]_vars

----------------------------------------------------------------------------
\* The bootstrap beside manual syncs.  MaxCalls runtime_set_config calls
\* with any payloads, at once or one after the other, while the volume is
\* mounted and unmounted and the frontend starts manual syncs of a watched
\* task; a run is one step.  Every enqueue is one of
\* enqueue_initial_runtime_watch_syncs; the dispatcher is left out.

BootManualTasks == ManualTasks \cap WatchTasks

NextBoot ==
    \/ \E c \in 1..MaxCalls : \E payload \in ConfigPayloads :
          ConfigCallsMade < MaxCalls /\ runtime_set_config_begin(c, payload)
    \/ \E c \in 1..MaxCalls : runtime_set_config_store(c)
    \/ \E c \in 1..MaxCalls : reconcile_read_config(c)
    \/ \E c \in 1..MaxCalls : reconcile_read_watching(c)
    \/ \E c \in 1..MaxCalls : reconcile_read_sources(c)
    \/ \E c \in 1..MaxCalls : reconcile_start(c)
    \/ \E c \in 1..MaxCalls : reconcile_sources_insert(c)
    \/ \E c \in 1..MaxCalls : reconcile_sources_remove(c)
    \/ \E c \in 1..MaxCalls : reconcile_stop(c)
    \/ \E c \in 1..MaxCalls : reconcile_stop_sources(c)
    \/ \E c \in 1..MaxCalls : reconcile_stop_queued(c)
    \/ \E c \in 1..MaxCalls : reconcile_stop_queue(c)
    \/ \E c \in 1..MaxCalls : runtime_set_config_bootstrap(c)
    \/ \E c \in 1..MaxCalls : enqueue_initial_runtime_watch_syncs(c)
    \/ \E c \in 1..MaxCalls : enqueue_initial_returned(c)
    \/ \E c \in 1..MaxCalls : runtime_set_config_return(c)
    \/ volume_changed
    \/ \E t \in BootManualTasks : ManualAllowed(t) /\ start_sync(t)
    \/ \E p \in Live : execute_sync_internal(p)
    \/ \E p \in Live : enqueue_check(p)
    \/ \E p \in Live : enqueue_insert(p)
    \/ \E p \in Live : enqueue_push(p)

SpecBoot == Init /\ [][NextBoot]_vars

----------------------------------------------------------------------------
\* A watched task taken out of the configuration.  The runtime_set_config
\* calls go one after the other, with task t2 watched or not; meanwhile
\* the watcher of the task calls back, the queue is filled and the
\* dispatcher starts the queued syncs.  A run is one step.  With one
\* watched task and no manual sync the cap of two runs is never reached, so
\* the dispatcher never waits for a slot.

PurgePayloads ==
    {RuntimeConfigPayload(<<ConfigTask("t2", <<"/", "a">>, <<"/", "t">>, TRUE)>>, <<>>),
     RuntimeConfigPayload(<<ConfigTask("t2", <<"/", "a">>, <<"/", "t">>, FALSE)>>, <<>>)}

NextPurge ==
    \/ \E payload \in PurgePayloads :
          /\ CommandsIdle /\ ConfigCallsMade < MaxSetConfigs
          /\ runtime_set_config_begin(1, payload)
    \/ runtime_set_config_store(1)
    \/ reconcile_read_config(1)
    \/ reconcile_read_watching(1)
    \/ reconcile_read_sources(1)
    \/ reconcile_start(1)
    \/ reconcile_sources_insert(1)
    \/ reconcile_stop(1)
    \/ reconcile_stop_sources(1)
    \/ reconcile_stop_queued(1)
    \/ reconcile_stop_queue(1)
    \/ runtime_set_config_bootstrap(1)
    \/ enqueue_initial_runtime_watch_syncs(1)
    \/ enqueue_initial_returned(1)
    \/ runtime_set_config_return(1)
    \/ \E t \in WatchTasks : watch_callback(t)
    \/ \E p \in Live : execute_sync_internal(p)
    \/ \E p \in Live : enqueue_check(p)
    \/ \E p \in Live : enqueue_insert(p)
    \/ \E p \in Live : enqueue_push(p)
    \/ \E p \in Live : dispatcher_start(p)
    \/ \E p \in Live : dispatcher_read_syncing(p)
    \/ \E p \in Live : dispatcher_read_queue(p)
    \/ \E p \in Live : dispatcher_pop(p)
    \/ \E p \in Live : dispatcher_unqueue(p)
    \/ \E p \in Live : dispatcher_clear(p)
    \/ \E p \in Live : dispatcher_recheck(p)
    \/ \E p \in Live : runtime_sync_task_config(p)
    \/ \E p \in Live : runtime_sync_task_sources(p)
    \/ \E p \in Live : runtime_sync_task_watchers(p)
    \/ \E p \in Live : runtime_sync_task_acquire(p)

SpecPurge == Init /\ [][NextPurge]_vars

----------------------------------------------------------------------------
\* Watch events under fair scheduling.  The configuration is set once, the
\* watchers call back at any time, and no manual sync is started.  A run
\* is three steps: the token is registered, the scan and the copy are
\* done, the slot is released; every spawned task is scheduled again and
\* again until it ends, and every run ends.

NextEvents ==
    \/ first_runtime_set_config
    \/ \E t \in WatchTasks : watch_callback(t)
    \/ \E p \in Live : execute_sync_begin(p)
    \/ \E p \in Live : execute_sync_copy(p)
    \/ \E p \in Live : execute_sync_release(p)
    \/ \E p \in Live : enqueue_check(p)
    \/ \E p \in Live : enqueue_insert(p)
    \/ \E p \in Live : enqueue_push(p)
    \/ \E p \in Live : dispatcher_start(p)
    \/ \E p \in Live : dispatcher_read_syncing(p)
    \/ \E p \in Live : dispatcher_read_queue(p)
    \/ \E p \in Live : dispatcher_notified(p)
    \/ \E p \in Live : dispatcher_pop(p)
    \/ \E p \in Live : dispatcher_unqueue(p)
    \/ \E p \in Live : dispatcher_clear(p)
    \/ \E p \in Live : dispatcher_recheck(p)
    \/ \E p \in Live : runtime_sync_task_config(p)
    \/ \E p \in Live : runtime_sync_task_sources(p)
    \/ \E p \in Live : runtime_sync_task_watchers(p)
    \/ \E p \in Live : runtime_sync_task_acquire(p)

\* One step of the spawned task p.
EventTaskStep(p) ==
    \/ execute_sync_begin(p) \/ execute_sync_copy(p) \/ execute_sync_release(p)
    \/ enqueue_check(p) \/ enqueue_insert(p) \/ enqueue_push(p)
    \/ dispatcher_start(p) \/ dispatcher_read_syncing(p) \/ dispatcher_read_queue(p)
    \/ dispatcher_notified(p) \/ dispatcher_pop(p) \/ dispatcher_unqueue(p)
    \/ dispatcher_clear(p) \/ dispatcher_recheck(p)
    \/ runtime_sync_task_config(p) \/ runtime_sync_task_sources(p)
    \/ runtime_sync_task_watchers(p) \/ runtime_sync_task_acquire(p)

\* The async runtime polls every spawned task that can proceed.
FairnessEvents ==
    \A k \in TaskKinds : \A t \in Tasks \cup {NoTask} :
        WF_vars(\E p \in Live : p.k = k /\ p.t = t /\ EventTaskStep(p))

SpecEvents == Init /\ [][NextEvents]_vars /\ FairnessEvents

\* ---------------------------------------------------------------------
\* Two resolve_conflict_items batches at once.  Tauri runs async commands
\* as tasks of the runtime: a second call starts while the first is
\* between two of its lock acquisitions.  One manual run leaves the
\* session; the batches carry one request each.

MaxBatches == 2             \* resolve_conflict_items batches in flight together

SingleRequests == {<<request>> : request \in ConflictResolutionRequest}

NextResolve ==
    \/ \E t \in SyncTasks :
          procs = EmptyBag /\ conflict_review_sessions = <<>> /\ start_sync(t)
    \/ \E p \in Live : sync_started(p)
    \/ \E p \in Live : sync_scanned(p)
    \/ \E p \in Live : sync_block_left(p)
    \/ \E p \in Live : sync_files_compared(p, 0)
    \/ \E p \in Live : sync_failed(p)
    \/ \E p \in Live : sync_tokens_removed(p)
    \/ \E p \in Live : sync_completed(p)
    \/ \E p \in Live : sync_released(p)
    \/ \E session_id \in SessionIds : \E resolutions \in SingleRequests :
          /\ Runs(procs) = 0 /\ Resolves(procs) < MaxBatches
          /\ resolve_conflict_items(session_id, resolutions)
    \/ \E p \in Live : resolve_snapshot(p)
    \/ \E p \in Live : resolve_apply(p)
    \/ \E p \in Live : resolve_record(p)
    \/ \E p \in Live : resolve_finish(p)

SpecResolve == Init /\ [][NextResolve]_vars

----------------------------------------------------------------------------
\* Properties of the coordinator.

Range(q) == {q[i] : i \in DOMAIN q}

AlreadySyncingErr(t) == Out("start_sync", t, "Err(Task is already syncing)")

\* C1: at every reachable state at most one sync run is in flight per task
\* id, whether the runs were started by start_sync or by the dispatcher.
OneRunPerTask == \A t \in Tasks : RunsOf(t) <= 1

\* A dispatcher-started run of a task holds the slot and a manual
\* start_sync of the same task has just been refused.
OneRunPerTaskWitness ==
    \E p \in Live : IsWatchRun(p) /\ RunsOf(p.t) = 1 /\ last = AlreadySyncingErr(p.t)

\* C2 as stated: syncing_tasks never has more than
\* RUNTIME_SYNC_MAX_CONCURRENCY members.
SyncingWithinCap == Cardinality(syncing_tasks) <= RUNTIME_SYNC_MAX_CONCURRENCY

\* C2, amended: only a manual start_sync raises syncing_tasks above
\* RUNTIME_SYNC_MAX_CONCURRENCY members; every step that grows the set
\* beyond the cap starts a manual run, and a dispatcher-started run never
\* does.
OnlyManualExceedsCap ==
    [][(/\ Cardinality(syncing_tasks') > Cardinality(syncing_tasks)
        /\ Cardinality(syncing_tasks') > RUNTIME_SYNC_MAX_CONCURRENCY)
       => (/\ ManualRuns(procs') = ManualRuns(procs) + 1
           /\ WatchRuns(procs') = WatchRuns(procs))]_vars

\* Two dispatcher-started runs and one manual run hold slots at once.
OnlyManualExceedsCapWitness ==
    /\ Cardinality(syncing_tasks) = RUNTIME_SYNC_MAX_CONCURRENCY + 1
    /\ WatchRuns(procs) = RUNTIME_SYNC_MAX_CONCURRENCY
    /\ ManualRuns(procs) = 1

\* C3: no task id is both in the syncing set and in the pending queue or
\* the queued membership set.
RunningXorQueued ==
    \A t \in Tasks :
        ~(t \in syncing_tasks /\ (t \in queued_sync_tasks \/ t \in Range(runtime_sync_queue)))

\* The task p took a step: one copy of its record left the bag.
Stepped(p) == CopiesIn(p, procs') < CopiesIn(p, procs)

AtAcquire(p) == p.k = "rst" /\ p.pc = "acquire"

AcquireResult(t, res) == Out("acquire_runtime_sync_slot", t, res)

\* C4: acquire_runtime_sync_slot returns AlreadySyncing for a member of the
\* syncing set, otherwise CapacityReached when the set has 2 or more
\* members, otherwise inserts the id and returns Acquired; the refusing
\* cases leave the set unchanged and a dispatcher-started run never raises
\* the set above 2 members.
RuntimeAcquireContract ==
    [][\A p \in Live : (AtAcquire(p) /\ Stepped(p)) =>
          IF p.t \in syncing_tasks
          THEN /\ last' = AcquireResult(p.t, "AlreadySyncing")
               /\ syncing_tasks' = syncing_tasks
               /\ Runs(procs') = Runs(procs)
          ELSE IF Cardinality(syncing_tasks) >= 2
               THEN /\ last' = AcquireResult(p.t, "CapacityReached")
                    /\ syncing_tasks' = syncing_tasks
                    /\ Runs(procs') = Runs(procs)
               ELSE /\ last' = Quiet
                    /\ syncing_tasks' = syncing_tasks \cup {p.t}
                    /\ Cardinality(syncing_tasks') <= 2
                    /\ WatchRuns(procs') = WatchRuns(procs) + 1]_vars

\* A dispatcher-started request was refused with CapacityReached while two
\* other tasks hold the slots.
RuntimeAcquireContractWitness ==
    \E t \in Tasks :
        /\ last = AcquireResult(t, "CapacityReached")
        /\ t \notin syncing_tasks
        /\ Cardinality(syncing_tasks) = 2

\* C5: at most one dispatcher is between setting and clearing
\* runtime_dispatcher_running, and the flag is set exactly while one is.
OneDispatcherLoop ==
    /\ LoopDispatchers(procs) <= 1
    /\ runtime_dispatcher_running <=> LoopDispatchers(procs) = 1

\* One dispatcher is in its loop while another has left it and a third is
\* scheduled.
OneDispatcherLoopWitness ==
    /\ LoopDispatchers(procs) = 1
    /\ BagIn(Disp("recheck", NoTask, 0), procs)
    /\ BagIn(Scheduled, procs)

AtCheck(p) == p.k = "enq" /\ p.pc = "check"

\* C8: a watch-triggered request for a task that is syncing is dropped
\* silently, at the check of enqueue_runtime_sync_task and at the
\* AlreadySyncing arm of runtime_sync_task: the request's task ends, no
\* other task is spawned or woken, and the queue, the queued set, the
\* syncing set and the queue-state events are as before.
SyncingRequestDropped ==
    [][\A p \in Live :
          ((AtCheck(p) \/ AtAcquire(p)) /\ Stepped(p) /\ p.t \in syncing_tasks) =>
              /\ procs' = Kill(procs, p)
              /\ RunsOf(p.t)' = RunsOf(p.t)
              /\ UNCHANGED run_vars
              /\ Silent
              /\ UNCHANGED <<runtime_sync_queue, queued_sync_tasks, syncing_tasks,
                             ui_queued>>]_vars

\* A watch event for a syncing task has just been refused by
\* enqueue_runtime_sync_task.
SyncingRequestDroppedWitness ==
    \E t \in syncing_tasks :
        /\ last = Out("enqueue_runtime_sync_task", t, "false (syncing)")
        /\ RunsOf(t) = 1
        /\ t \notin queued_sync_tasks

\* C6 as stated: watch-triggered syncs acquire their slots in the order of
\* their first enqueue; the request that acquires is the one that has
\* waited longest.
StartsInEnqueueOrder ==
    [][\A p \in Live :
          (/\ AtAcquire(p) /\ Stepped(p)
           /\ WatchRuns(procs') > WatchRuns(procs))
          => (enqueue_order # <<>> /\ Head(enqueue_order) = p.t)]_vars

IsPrefix(q, r) == Len(q) <= Len(r) /\ SubSeq(r, 1, Len(q)) = q

\* C6, amended: the dispatcher dequeues the task ids in the order in which
\* they were enqueued: every step leaves the queue alone, appends at its
\* tail, or hands its head to the dispatcher.
DequeuesInEnqueueOrder ==
    [][\/ IsPrefix(runtime_sync_queue, runtime_sync_queue')
       \/ /\ runtime_sync_queue # <<>>
          /\ runtime_sync_queue' = Tail(runtime_sync_queue)
          /\ BagIn(Disp("unqueue", Head(runtime_sync_queue), 0), procs')]_vars

\* The dispatcher holds the id it has just dequeued while a different id
\* that was enqueued later is still in the queue.
DequeuesInEnqueueOrderWitness ==
    \E p \in Live :
        /\ p.k = "disp" /\ p.pc = "unqueue"
        /\ runtime_sync_queue # <<>>
        /\ enqueue_order = <<p.t>> \o runtime_sync_queue

----------------------------------------------------------------------------
\* Properties of the runs.

ManualRunsOf(t) == Count(procs, {p \in DOMAIN procs : IsManualRun(p) /\ p.t = t})

\* C9: a manual start_sync for a task that is syncing starts no run and
\* fails with "Task is already syncing"; the failing call changes nothing:
\* the syncing set, the cancellation tokens, the queue, the queued set and
\* every task in flight are as before.
ManualConflictRefused ==
    [][\A t \in Tasks :
          /\ ManualRunsOf(t)' > ManualRunsOf(t) => t \notin syncing_tasks
          /\ (last' = AlreadySyncingErr(t) /\ last' # last) =>
                /\ t \in syncing_tasks
                /\ UNCHANGED run_vars
                /\ UNCHANGED <<syncing_tasks, cancel_tokens, runtime_sync_queue,
                               queued_sync_tasks, procs, runtime_dispatcher_running,
                               slot_permit, ui_queued, watch_vars>>]_vars

\* A run is in its copy phase with its token registered and a manual
\* start_sync of its task has just failed.
ManualConflictRefusedWitness ==
    \E p \in Live :
        /\ IsRun(p) /\ p.pc = "body"
        /\ p.t \in syncing_tasks /\ p.t \in cancel_tokens
        /\ last = AlreadySyncingErr(p.t)

RunEnded(t) == RunsOf(t)' < RunsOf(t)

\* notify_one took effect once: the waiting dispatcher was woken, or, with
\* none waiting, the permit is stored.
NotifiedOnce ==
    IF BagIn(Waiter, procs)
    THEN ~BagIn(Waiter, procs') /\ slot_permit' = slot_permit
    ELSE slot_permit'

\* C10: after every step the syncing set holds exactly the ids of the
\* runs in flight; the step that ends a run, on whichever exit path, removes its id and
\* notifies the slot-released signal once, and no other step removes an id.
SlotReleasedOnExit ==
    [][/\ syncing_tasks' = {p.t : p \in {q \in BagToSet(procs') : IsRun(q)}}
       /\ \A t \in Tasks :
             /\ RunEnded(t) => (/\ t \in syncing_tasks
                                /\ syncing_tasks' = syncing_tasks \ {t}
                                /\ NotifiedOnce)
             /\ (t \in syncing_tasks /\ t \notin syncing_tasks') => RunEnded(t)]_vars

\* A run has left on the scan-error path (its token is still registered):
\* its slot is free and the release stored a permit.
SlotReleasedOnExitWitness ==
    \E t \in cancel_tokens :
        /\ RunsOf(t) = 0
        /\ t \notin syncing_tasks
        /\ slot_permit

\* C11: once a run has ended no token of its task id is registered: a
\* token is in the map only while a run of its task is in flight, so
\* cancel_operation returns false for a task with no run in flight.
TokenDeregisteredOnExit ==
    \A t \in Tasks : RunsOf(t) = 0 => ~cancel_operation_result(cancel_tokens, t)

----------------------------------------------------------------------------
\* Properties under fair scheduling.

Queued(t) == t \in Range(runtime_sync_queue)

\* A dispatcher task exists: scheduled, in its loop, waiting for a slot, or
\* about to read the queue again after its loop; or the initial enqueue is
\* still under way and schedules one when it is through.  A waiting
\* dispatcher waits only while the syncing set is at the cap, and a release
\* will wake it.
DispatcherAhead ==
    /\ runtime_sync_queue # <<>> => \E p \in Live : p.k \in {"disp", "boot"}
    /\ BagIn(Waiter, procs) =>
          (Cardinality(syncing_tasks) >= RUNTIME_SYNC_MAX_CONCURRENCY /\ ~slot_permit)

EveryQueuedDequeued == \A t \in WatchTasks : Queued(t) ~> ~Queued(t)

\* C7 as stated: under fair scheduling, every run ending, every queued id
\* is eventually dequeued, and a non-empty queue is never left without a
\* dispatcher.
NoQueuedSyncStranded == []DispatcherAhead /\ EveryQueuedDequeued

\* C7, amended: a non-empty queue is never left without a dispatcher, and
\* every queued id is eventually dequeued provided manual syncs do not go
\* on forever (from some point on no manual run holds a slot); manual
\* syncs that keep the syncing set at the cap can hold the queue back
\* without end.
NoQueuedSyncStrandedUnlessManual ==
    /\ []DispatcherAhead
    /\ (<>[](ManualRuns(procs) = 0)) => EveryQueuedDequeued

\* The queue is non-empty, a slot is free, and the only dispatcher is the
\* one that has left its loop and is about to read the queue again.
NoQueuedSyncStrandedUnlessManualWitness ==
    /\ runtime_sync_queue # <<>>
    /\ Cardinality(syncing_tasks) < RUNTIME_SYNC_MAX_CONCURRENCY
    /\ \A p \in Live : p.k = "disp" => p.pc = "recheck"
    /\ \E p \in Live : p.k = "disp"

----------------------------------------------------------------------------
\* Properties of the run seen from inside.

LastLevel(logs) == IF logs = <<>> THEN "none" ELSE logs[Len(logs)].level

LastEntry(logs) == IF logs = <<>> THEN Entry("none", "none", NoTask) ELSE logs[Len(logs)]

\* The run p is at pc and takes its step.
RunSteps(p, pc) == IsRun(p) /\ p.pc = pc /\ Stepped(p)

\* C12: a run whose cancellation token has fired before its copy pipeline
\* returned leaves the session store as it is, whatever its scan had found:
\* none of its steps changes conflict_review_sessions.
CancelledRunOpensNoSession ==
    [][\A p \in Live :
          (IsRun(p) /\ p.n >= 1 /\ Stepped(p)) =>
              UNCHANGED <<conflict_review_sessions, conflict_review_seq>>]_vars

\* C13: the step that handles the result of a cancelled run appends no log
\* entry of level error: if the last entry is of level error after it, it
\* was so before.
CancelledRunLogsNoError ==
    [][\A p \in Live :
          (RunSteps(p, "tokens") /\ p.r = "cancelled") =>
              (LastLevel(log') = "error" => LastLevel(log) = "error")]_vars

CancelledRuns == {p \in Live : IsRun(p) /\ p.r = "cancelled"}

Untouched(d, n) == \A j \in DOMAIN d : j > n => d[j] = "pending"

\* C14 as stated: when a run is cancelled at file N, files 1..N-1 are
\* complete on the target and files N+1..M are untouched.
CancelledAtFileLeavesEarlierComplete ==
    \A p \in CancelledRuns :
        LET d == diffs[p.t]
            n == CurrentFile(d)
        IN  /\ \A j \in DOMAIN d : j < n => d[j] = "complete"
            /\ Untouched(d, n)

\* C14, amended: when a run is cancelled at file N, each of the files
\* 1..N-1 has been processed to its end (it is complete on the target, or
\* its copy failed, the error went to the result's errors and the loop
\* went on), and files N+1..M are untouched.
CancelledAtFileLeavesEarlierProcessed ==
    \A p \in CancelledRuns :
        LET d == diffs[p.t]
            n == CurrentFile(d)
        IN  /\ \A j \in DOMAIN d : j < n => d[j] \in {"complete", "failed"}
            /\ Untouched(d, n)

\* A run over three diffs has been cancelled at the second: the copy of the
\* first had failed, the second is partly written, the third is untouched.
CancelledAtFileLeavesEarlierProcessedWitness ==
    \E p \in CancelledRuns : diffs[p.t] = <<"failed", "partial", "pending">>

\* C15: unmount_volume is called only by the step that ends a
\* dispatcher-started run whose result is Ok, whose task has auto_unmount
\* set and whose scan found no candidate; when such a run found candidates
\* no call is made and a warning is logged.
AutoUnmountOnlyAfterCleanWatchRun ==
    [][/\ unmount_requests' # unmount_requests =>
             \E p \in Live : RunSteps(p, "release")
       /\ \A p \in Live :
             RunSteps(p, "release") =>
                LET auto == p.o = "watch" /\ p.r = "ok" /\ p.t \in auto_unmount
                    pending == target_newer_conflicts[p.t] # <<>>
                IN  /\ unmount_requests' # unmount_requests => (auto /\ ~pending)
                    /\ (auto /\ pending) =>
                           LastEntry(log') = Entry("warning", "Other", p.t)]_vars

\* The unmount has been requested for a task whose run has ended.
AutoUnmountOnlyAfterCleanWatchRunWitness ==
    \E t \in auto_unmount : unmount_requests[t] = 1 /\ RunsOf(t) = 0

----------------------------------------------------------------------------
\* Properties of the conflict review.

\* The batch p is at pc and takes its step.
BatchSteps(p, pc) == p.k = "resolve" /\ p.pc = pc /\ Stepped(p)

\* The batch p after `continue`.
Continued(p) ==
    [p EXCEPT !.pc = IF Tail(p.r.rest) = <<>> THEN "finish" ELSE "snapshot",
              !.r.rest = Tail(p.r.rest)]

ItemNotFound(request) ==
    ConflictResolutionFailure(request.item_id, "Conflict item not found")

\* C16: when the loop of a batch comes to a request whose item id is not
\* in the session, the request goes to failures and the loop goes on with
\* the remaining requests; when it comes to a request whose item is not
\* Pending, the loop goes on with nothing added to failures.  Neither step
\* makes a file operation or changes the store.
UnknownOrSettledItemPassedOver ==
    [][\A p \in Live :
          (BatchSteps(p, "snapshot")
              /\ p.r.session_id \in DOMAIN conflict_review_sessions) =>
             LET request == Head(p.r.rest)
                 items == conflict_review_sessions[p.r.session_id].items
                 missing == ~HasItem(items, request.item_id)
                 settled == /\ ~missing
                            /\ items[FindItem(items, request.item_id)].status # "Pending"
             IN  /\ missing =>
                       BagIn([Continued(p) EXCEPT
                                 !.r.failures = Append(@, ItemNotFound(request))], procs')
                 /\ settled => BagIn(Continued(p), procs')
                 /\ (missing \/ settled) =>
                       /\ file_ops' = <<>>
                       /\ UNCHANGED conflict_review_sessions]_vars

\* A batch whose first request named an unknown item is applying the
\* action of its second request.
UnknownOrSettledItemPassedOverWitness ==
    \E p \in Live :
        /\ p.k = "resolve" /\ p.pc = "apply"
        /\ p.r.failures = <<[item_id |-> MaxConflicts + 1,
                             message |-> "Conflict item not found"]>>

\* The step returned the error of create_dir_all for the target's parent.
ParentFailed ==
    reply' # NoReply /\ reply'.err = "Failed to ensure target parent directory"

\* C17: a failure of the action of one request (a copy error of ForceCopy;
\* for RenameThenCopy a missing target, a failed rename, no vacant backup
\* name or a failed copy after the rename) does not end the batch: after
\* the action the batch records its outcome, and an outcome Err goes to
\* failures and to the item's note, leaves the item Pending and lets the
\* loop go on.
ApplyFailureIsPerItem ==
    [][\A p \in Live :
          /\ (BatchSteps(p, "apply") /\ ~ParentFailed) =>
                \E q \in BagToSet(procs') :
                    q.k = "resolve" /\ q.pc = "record" /\ q.r.rest = p.r.rest
          /\ (BatchSteps(p, "record") /\ ~p.r.apply.ok
                  /\ p.r.session_id \in DOMAIN conflict_review_sessions) =>
                LET request == Head(p.r.rest)
                    items == conflict_review_sessions[p.r.session_id].items
                    i == FindItem(items, request.item_id)
                    after == conflict_review_sessions'[p.r.session_id].items
                IN  /\ BagIn([Continued(p) EXCEPT
                                 !.r.failures = Append(@, ConflictResolutionFailure(
                                                    request.item_id, p.r.apply.note)),
                                 !.r.apply = NoApply], procs')
                    /\ after[i].note = p.r.apply.note
                    /\ after[i].status = "Pending"]_vars

\* The step is a call of close_conflict_review_session for session_id
\* that found the session in the store.
CloseCalled(session_id) ==
    /\ session_id \in DOMAIN conflict_review_sessions
    /\ reply'.op = "close_conflict_review_session"
    /\ reply'.session_id = session_id

\* C18: a close without force of a session that has a Pending item returns
\* {closed = false, had_pending = true, skipped_count = 0}, leaves the
\* store as it is and emits no event.
UnforcedCloseWithPendingIsNoOp ==
    [][\A session_id \in SessionIds :
          (/\ CloseCalled(session_id)
           /\ ~reply'.force_skip_pending
           /\ pending_conflict_count(conflict_review_sessions[session_id].items) > 0) =>
              /\ reply' = CloseConflictReviewSessionResult(session_id, FALSE, FALSE, TRUE, 0)
              /\ UNCHANGED conflict_review_sessions
              /\ emitted' = {}]_vars

\* A close without force has been refused and the session is in the store
\* with its item Pending.
UnforcedCloseWithPendingIsNoOpWitness ==
    \E session_id \in DOMAIN conflict_review_sessions :
        /\ reply = CloseConflictReviewSessionResult(session_id, FALSE, FALSE, TRUE, 0)
        /\ pending_conflict_count(conflict_review_sessions[session_id].items) > 0

\* The session ids that have been handed out and are not in the store.
Gone(session_id) ==
    /\ session_id \notin DOMAIN conflict_review_sessions
    /\ session_id[2] <= conflict_review_seq

\* C19: a close with force, or of a session without a Pending item, takes
\* the session out of the store and returns closed = true with the number
\* of items that were Pending as skipped_count.  A session id that has
\* left the store never comes back; get, close and a new resolve call for
\* it return "not found", and a batch in flight for it returns Err.
CloseRemovesSession ==
    [][\A session_id \in SessionIds :
          /\ CloseCalled(session_id) =>
                LET pending == pending_conflict_count(
                                   conflict_review_sessions[session_id].items)
                    forced == reply'.force_skip_pending
                IN  (forced \/ pending = 0) =>
                       /\ session_id \notin DOMAIN conflict_review_sessions'
                       /\ reply' = CloseConflictReviewSessionResult(
                                       session_id, forced, TRUE, pending > 0, pending)
          /\ Gone(session_id) =>
                /\ session_id \notin DOMAIN conflict_review_sessions'
                /\ (reply' # NoReply /\ reply'.session_id = session_id) =>
                      IF \E p \in Live : p.k = "resolve" /\ Stepped(p)
                      THEN reply'.err # "none"
                      ELSE reply' = NotFound(reply'.op, session_id)]_vars

\* A forced close has skipped the Pending item of a session.
CloseRemovesSessionWitness ==
    \E session_id \in SessionIds :
        /\ reply = CloseConflictReviewSessionResult(session_id, TRUE, TRUE, TRUE, 1)
        /\ Gone(session_id)

\* C20: a session in the store stays there, with its task, its origin and
\* the ids and paths of its items, over every step but a close call for
\* it that returns closed = true.
SessionStaysUntilClosed ==
    [][\A session_id \in DOMAIN conflict_review_sessions :
          LET session == conflict_review_sessions[session_id]
              Same(after) ==
                  /\ after.task_id = session.task_id
                  /\ after.origin = session.origin
                  /\ DOMAIN after.items = DOMAIN session.items
                  /\ \A i \in DOMAIN session.items :
                        /\ after.items[i].id = session.items[i].id
                        /\ after.items[i].relative_path = session.items[i].relative_path
          IN  \/ /\ session_id \in DOMAIN conflict_review_sessions'
                 /\ Same(conflict_review_sessions'[session_id])
              \/ /\ reply'.op = "close_conflict_review_session"
                 /\ reply'.session_id = session_id
                 /\ reply'.err = "none"
                 /\ reply'.closed]_vars

\* A later run of the task has opened a second session beside the first,
\* whose item a batch has settled.
SessionStaysUntilClosedWitness ==
    \E s1 \in DOMAIN conflict_review_sessions :
        \E s2 \in DOMAIN conflict_review_sessions :
            /\ s1[2] < s2[2]
            /\ conflict_review_sessions[s1].task_id = conflict_review_sessions[s2].task_id
            /\ conflict_review_sessions[s1].items[1].status # "Pending"

----------------------------------------------------------------------------
\* Properties of the safe copy.

\* C21: after a RenameThenCopy that reports SafeCopied the target holds
\* the source's content, the generated backup path holds what the target
\* held before, that path was vacant before the rename, and every other
\* backup path holds what it held.
SafeCopyKeepsBoth ==
    safe_copy.result = "SafeCopied" =>
        /\ disk["source"] # Absent
        /\ disk["target"] = disk["source"]
        /\ safe_copy.renamed_to \in BackupNames
        /\ disk_before["target"] # Absent
        /\ disk[safe_copy.renamed_to] = disk_before["target"]
        /\ disk_before[safe_copy.renamed_to] = Absent
        /\ \A other \in BackupNames \ {safe_copy.renamed_to} :
              disk[other] = disk_before[other]

\* A safe copy that passed over a taken name and replaced a target that
\* differed from the source.
SafeCopiedPastTakenName ==
    /\ safe_copy.result = "SafeCopied"
    /\ safe_copy.attempt > 0
    /\ disk_before["target"] # disk_before["source"]
    /\ \E other \in BackupNames : disk_before[other] # Absent

----------------------------------------------------------------------------
\* Properties of the sync engine.

\* sync_files has compared the trees and copied nothing yet.
Compared == engine.pc = "copy" /\ engine.next = 1

DiffPaths(kind) ==
    {engine.diffs[i].path : i \in {j \in DOMAIN engine.diffs : engine.diffs[j].kind = kind}}

\* C22: every Modified diff is for a path that is a file in the source and
\* present in the target, with a source size other than the target's, a
\* source mtime later than the target's, or, in checksum mode, a hash
\* other than the target's; a file equal to its target in size, mtime and,
\* in checksum mode, hash yields no diff.
ModifiedDiffsAreJustified ==
    Compared =>
        /\ \A path \in DiffPaths("Modified") :
              /\ source_tree[path].is_file
              /\ target_tree[path].exists
              /\ \/ source_tree[path].size # target_tree[path].size
                 \/ source_tree[path].modified > target_tree[path].modified
                 \/ /\ checksum_mode
                    /\ source_tree[path].hash # target_tree[path].hash
        /\ \A path \in EnginePaths :
              ( /\ source_tree[path].is_file /\ target_tree[path].is_file
                /\ source_tree[path].size = target_tree[path].size
                /\ source_tree[path].modified = target_tree[path].modified
                /\ checksum_mode => source_tree[path].hash = target_tree[path].hash )
              => path \notin DiffPaths("Modified") \cup DiffPaths("New")

\* One file differs from its target in the hash alone and has a diff, the
\* other is equal to its target and has none.
DiffByChecksumAlone ==
    /\ Compared
    /\ \E path \in DiffPaths("Modified") :
          /\ source_tree[path].size = target_tree[path].size
          /\ source_tree[path].modified = target_tree[path].modified
    /\ \E path \in EnginePaths \ DiffPaths("Modified") :
          source_tree[path].is_file /\ source_tree[path] = target_tree[path]


\* The paths the run copies: those of the diffs of sync_files.
CopySet == {engine.diffs[i].path : i \in DOMAIN engine.diffs}

\* C23: the relative path of a conflict candidate of a run is not among
\* the paths that run copies, whatever another program writes between the
\* steps of the run: the run does not overwrite a target it reports as
\* newer.
CandidateIsNotCopied == engine.target_newer_conflicts \cap CopySet = {}


\* The second run has made both its scans, after a first run that returned
\* Ok with no error in its result, and no other program has written to
\* the trees.
SecondRunCompared ==
    /\ engine.run = 2
    /\ engine.pc \in {"copy", "done"}
    /\ engine.returned # "Err"
    /\ engine.earlier.returned = "Ok"
    /\ engine.earlier.errors = <<>>
    /\ engine.touched = 0

\* C24 as stated: a second run over untouched trees, after a first run in
\* which every copy succeeded, computes an empty diff set, copies nothing
\* and has no conflict candidates.
SecondRunFindsNothing ==
    SecondRunCompared =>
        /\ engine.diffs = <<>>
        /\ engine.result.files_copied = 0
        /\ engine.target_newer_conflicts = {}

\* C24, amended: a second run over untouched trees, after a first run in
\* which every copy succeeded, computes an empty diff set and copies
\* nothing, with or without checksum mode; every conflict candidate of the
\* first run is a candidate of the second again.
SecondRunCopiesNothing ==
    SecondRunCompared =>
        /\ engine.diffs = <<>>
        /\ engine.result.files_copied = 0
        /\ engine.earlier.target_newer_conflicts \subseteq engine.target_newer_conflicts

\* A second run in checksum mode has returned after a first run that
\* copied a file and reported another as a candidate.
SecondRunAfterCopyAndCandidate ==
    /\ SecondRunCompared
    /\ engine.pc = "done"
    /\ checksum_mode
    /\ engine.earlier.files_copied > 0
    /\ engine.earlier.target_newer_conflicts # {}


RECURSIVE SumTo(_, _)
SumTo(f, n) == IF n = 0 THEN 0 ELSE f[n] + SumTo(f, n - 1)

\* The diffs whose copy returned Ok.
Succeeded == {i \in DOMAIN engine.outcomes : engine.outcomes[i] = "Ok"}

\* sync_files has returned Ok(result).
Completed == engine.pc = "done" /\ engine.returned = "Ok"

\* C25: in a completed run every diff was processed, a failed copy did not
\* stop the run: files_copied plus the number of errors is the number of
\* diffs, files_copied is the number of the diffs whose copy succeeded,
\* the errors are the paths of the others, and bytes_copied is the sum of
\* the source sizes of the diffs whose copy succeeded.
ResultCountsEveryDiff ==
    Completed =>
        /\ Len(engine.outcomes) = Len(engine.diffs)
        /\ engine.result.files_copied + Len(engine.result.errors) = Len(engine.diffs)
        /\ engine.result.files_copied = Cardinality(Succeeded)
        /\ Range(engine.result.errors) =
              {engine.diffs[i].path : i \in DOMAIN engine.diffs \ Succeeded}
        /\ engine.result.bytes_copied =
              SumTo([i \in DOMAIN engine.diffs |->
                        IF i \in Succeeded THEN engine.diffs[i].source_size ELSE 0],
                    Len(engine.diffs))

\* A completed run whose first copy failed and whose second succeeded.
RunWentOnAfterFailure ==
    /\ Completed
    /\ engine.outcomes = <<"Err", "Ok">>
    /\ engine.diffs[1].source_size # engine.diffs[2].source_size

----------------------------------------------------------------------------
\* Properties of orphan deletion.

\* A requested path the command must not act on: absolute, with a ".."
\* component, missing under the target when the command started, or
\* resolving outside the target.
Unfit(relative) ==
    \/ is_absolute(relative)
    \/ has_parent_dir(relative)
    \/ LET canonical == Resolve(orphan.fs_before, <<RootDir>>,
                                Tail(Target \o relative), MaxLinks)
       IN  canonical = <<>> \/ ~StartsWith(canonical, Target)

\* C26: every path orphan deletion removes is the canonical target
\* directory or inside it, and what is outside it stays as it was; a
\* requested path that is absolute, has a ".." component, does not exist
\* or canonicalizes outside the target is counted as skipped, once, and
\* nothing is removed for it.
OrphanDeletionStaysInTarget ==
    orphan.pc # "rest" =>
        /\ \A path \in orphan.removed : StartsWith(path, Target)
        /\ \A path \in DOMAIN fs :
              ~StartsWith(path, Target) => fs[path] = orphan.fs_before[path]
        /\ orphan.pc \in {"remove", "done"} =>
              \A i \in DOMAIN orphan.paths :
                  Unfit(orphan.paths[i]) =>
                      /\ i \in orphan.skipped
                      /\ \A k \in DOMAIN orphan.canonical_targets :
                            orphan.canonical_targets[k].index # i
        /\ orphan.pc = "done" =>
              orphan.skipped_count = Cardinality(orphan.skipped)

\* The command has returned: it skipped a link that names a file outside
\* the target and removed a directory of the target with what was in it.
OrphanDirRemovedLinkSkipped ==
    /\ orphan.pc = "done"
    /\ \E i \in orphan.skipped :
          /\ orphan.paths[i] = <<"l">>
          /\ orphan.fs_before[Target \o <<"l">>] = Link(Outside \o <<"g">>)
    /\ {Target \o <<"d">>, Target \o <<"d", "f">>} \subseteq orphan.removed

----------------------------------------------------------------------------
\* Properties of the watcher.

\* The event the debouncer makes of the events it received: the kind of
\* the last, the union of the paths.
Coalesced(events) ==
    Event(events[Len(events)].kind, UNION {events[i].paths : i \in DOMAIN events})

\* C27: the events the debounce thread receives without a debounce time of
\* quiet between them make one burst; the callback is invoked once per
\* burst, after the timeout that ends it, which the thread takes only
\* when no event is waiting, with the union of the paths of the burst and
\* the kind of its last event; and every burst ends so.
BurstCalledBackOnce ==
    /\ [][/\ on_change' # on_change =>
                /\ debounce.pc = "timeout"
                /\ burst # <<>>
                /\ on_change' = Append(on_change, [event |-> Coalesced(burst),
                                                   received |-> burst,
                                                   stopped |-> FALSE])
          /\ (burst # <<>> /\ burst' = <<>>) => Len(on_change') = Len(on_change) + 1
          /\ (debounce.pc # "timeout" /\ debounce'.pc = "timeout") =>
                channel = <<>> /\ UNCHANGED on_change]_vars
    /\ \A n \in 1..MaxEvents : (Len(burst) = n) ~> (burst = <<>>)

\* The callback has been invoked for a burst of two events that differ in
\* kind and in paths.
BurstOfTwoCalledBack ==
    \E i \in DOMAIN on_change :
        LET received == on_change[i].received
        IN  /\ Len(received) = 2
            /\ received[1].kind # received[2].kind
            /\ received[1].paths = {"p"}
            /\ received[2].paths = {"q"}


\* C28: after stop_watching of the task has returned the change callback
\* of its watcher is not invoked again: the batch the debounce thread has
\* accumulated is discarded.
NoCallbackAfterStop == \A i \in DOMAIN on_change : ~on_change[i].stopped

----------------------------------------------------------------------------
\* Properties of the validation.

\* Two normalized keys overlap: they are equal, or one is the other
\* followed by "/" and more.
Overlap(a, b) ==
    a = b \/ StartsWith(b, Append(a, "/")) \/ StartsWith(a, Append(b, "/"))

\* The three rules on a task list.
RulesKept(tasks) ==
    /\ \A i \in DOMAIN tasks : ~Overlap(source_key(tasks[i]), target_key(tasks[i]))
    /\ \A i, j \in DOMAIN tasks :
          i # j => ~Overlap(target_key(tasks[i]), target_key(tasks[j]))
    /\ \A w, o \in DOMAIN tasks :
          (tasks[w].watch_mode /\ o # w) =>
              ~Overlap(target_key(tasks[o]), source_key(tasks[w]))

\* C29: validate_runtime_tasks accepts a task list only if no task's
\* source and target overlap, no two distinct tasks' targets overlap, and
\* no other task's target overlaps the source of a watch-mode task; a list
\* that breaks one of the rules is rejected with an error.
AcceptedTasksKeepRules ==
    set_config_returned # "none" =>
        (set_config_returned = "Ok" => RulesKept(payload_tasks))

\* C30: a task list with two tasks of the same id is rejected by
\* runtime_set_config, and the stored configuration has no two tasks with
\* equal ids.
StoredIdsAreUnique ==
    /\ \A i, j \in DOMAIN stored_tasks :
          i # j => stored_tasks[i].id # stored_tasks[j].id
    /\ (set_config_returned # "none"
          /\ \E i, j \in DOMAIN payload_tasks :
                i # j /\ payload_tasks[i].id = payload_tasks[j].id)
       => set_config_returned # "Ok"

----------------------------------------------------------------------------
\* Properties of the configuration.

\* C31: a runtime_set_config call that returns an error of the validation
\* has changed nothing: it has not replaced the stored configuration (the
\* other parts of the coordinator are written after the last validation).
RefusedSetConfigWroteNothing ==
    \A i \in DOMAIN config_returns :
        config_returns[i].result # "Ok" => ~config_returns[i].wrote


\* C32: when no command is in flight, the task ids with a started watcher
\* are the task ids with an entry in the source map.
WatchersMatchSourceMap ==
    CommandsIdle => watchers = runtime_watch_sources

\* The state of task id t as a returned call left it matches the
\* configuration the call stored: a watch_mode task has a started watcher
\* and the source-map entry of its source, any other task has neither.
MatchesConfiguration(returned, t) ==
    LET desired == runtime_desired_watch_sources(returned.payload.tasks)
    IN  IF t \in DOMAIN desired
        THEN /\ t \in returned.watchers
             /\ t \in DOMAIN returned.sources
             /\ returned.sources[t] = desired[t]
        ELSE t \notin returned.watchers /\ t \notin DOMAIN returned.sources

\* The two passes have run: the last call and the call before it, sent
\* with the same payload, have both reconciled and returned.
TwoPassesReturned ==
    /\ Len(config_returns) = MaxPasses
    /\ config_returns[MaxPasses - 1].result = "Ok"
    /\ config_returns[MaxPasses].result = "Ok"

\* C33: reconciling twice with the same configuration leaves the watchers
\* and the source map as the first pass left them, and the second pass
\* starts or stops no watcher of a task whose state matched the
\* configuration after the first pass.
ReconcileTwiceIsIdempotent ==
    TwoPassesReturned =>
        LET first == config_returns[MaxPasses - 1]
            second == config_returns[MaxPasses]
        IN  /\ second.watchers = first.watchers
            /\ second.sources = first.sources
            /\ \A t \in second.touched : ~MatchesConfiguration(first, t)

\* The first pass started a watcher that the second pass found in place.
SecondPassFoundWatcherStarted ==
    /\ TwoPassesReturned
    /\ \E t \in config_returns[MaxPasses - 1].touched :
          /\ MatchesConfiguration(config_returns[MaxPasses - 1], t)
          /\ t \in config_returns[MaxPasses - 1].watchers
          /\ t \notin config_returns[MaxPasses].touched

\* C34: once the concurrent runtime_set_config calls have all returned,
\* the watchers and the source map are the watch_mode tasks, with their
\* sources, of the configuration that is stored.
ConfigSetsAreSerialized ==
    (Len(config_returns) = MaxCalls /\ \A c \in 1..MaxCalls : config_calls[c].pc = "rest") =>
        LET desired == runtime_desired_watch_sources(stored_tasks)
        IN  /\ watchers = DOMAIN desired
            /\ runtime_watch_sources = DOMAIN desired
            /\ \A t \in DOMAIN desired : watch_source_paths[t] = desired[t]

\* The calls, returned or in flight, that have taken the bootstrap.
BootstrapCalls ==
    {<<"returned", i>> : i \in {k \in DOMAIN config_returns : config_returns[k].bootstrap}}
        \cup {<<"call", c>> : c \in {k \in 1..MaxCalls : /\ config_calls[k].pc # "rest"
                                                          /\ config_calls[k].bootstrap}}

\* The bootstrap is taken once, by a call that is past its reconciliation
\* and returns Ok; a call that returns an error has not taken it; a call
\* that returns Ok finds it taken; the initial enqueue runs only within
\* the call that took it.
BootstrapTakenOnce ==
    /\ Cardinality(BootstrapCalls) <= 1
    /\ runtime_initial_watch_bootstrapped <=> BootstrapCalls # {}
    /\ \A i \in DOMAIN config_returns :
          /\ config_returns[i].bootstrap => config_returns[i].result = "Ok"
          /\ config_returns[i].result = "Ok" => runtime_initial_watch_bootstrapped
          /\ ~config_returns[i].bootstrap => config_returns[i].order = <<>>
    /\ \A c \in 1..MaxCalls :
          config_calls[c].pc \in {"initial", "enqueueing"} => config_calls[c].bootstrap
    /\ \A p \in Live :
          p.k = "boot" => \E c \in 1..MaxCalls : config_calls[c].pc = "enqueueing"

\* The initial enqueue p is done with the id in hand in this step.
InitialEnqueueReturns(p) ==
    /\ p.k = "boot"
    /\ p \in Live
    /\ ~\E q \in BagToSet(procs') : q.k = "boot" /\ q.r = p.r

\* The id is queued.
InQueue(t, queue, queued) == t \in queued \/ \E i \in DOMAIN queue : queue[i] = t

\* C36 as stated: the bootstrap is taken once, by the first call that
\* succeeds, and its initial enqueue leaves every watch_mode task of the
\* configuration queued.
BootstrapEnqueuesEveryTask ==
    /\ []BootstrapTakenOnce
    /\ [][\A p \in Live :
             InitialEnqueueReturns(p) => InQueue(p.t, runtime_sync_queue', queued_sync_tasks')]_vars

\* C36, amended: the bootstrap is taken once, by the first call that
\* succeeds, and its initial enqueue goes through the watch_mode tasks of
\* the stored configuration and leaves each of them queued unless the task
\* is syncing when its turn comes.
BootstrapEnqueuesTasksNotSyncing ==
    /\ []BootstrapTakenOnce
    /\ [][\A c \in 1..MaxCalls :
             config_calls[c].pc = "initial" /\ config_calls'[c].pc # "initial" =>
                 config_calls'[c].order = watch_mode_order(stored_tasks)]_vars
    /\ [][\A p \in Live :
             InitialEnqueueReturns(p) =>
                 \/ InQueue(p.t, runtime_sync_queue', queued_sync_tasks')
                 \/ p.t \in syncing_tasks]_vars

\* Two calls have returned Ok: one took the bootstrap and enqueued the
\* initial syncs of its tasks, the other did not.
BootstrapTakenByOneOfTwo ==
    /\ Len(config_returns) = 2
    /\ \A i \in DOMAIN config_returns : config_returns[i].result = "Ok"
    /\ \E i \in DOMAIN config_returns :
          /\ config_returns[i].bootstrap
          /\ config_returns[i].order # <<>>
          /\ \A k \in DOMAIN config_returns[i].order :
                InQueue(config_returns[i].order[k], runtime_sync_queue, queued_sync_tasks)
    /\ \E i \in DOMAIN config_returns : ~config_returns[i].bootstrap

\* The last runtime_set_config call has returned Ok and none is in flight.
ConfigSetCompleted ==
    /\ CommandsIdle
    /\ config_returns # <<>>
    /\ config_returns[Len(config_returns)].result = "Ok"

\* C35: once the config set that took a watched task out of the
\* configuration has completed, the task has no watcher and no source-map
\* entry and is in neither the queue nor the queued set, as long as no
\* later config set makes it a watch_mode task again.
RemovedTaskStaysOut ==
    ConfigSetCompleted =>
        \A t \in WatchTasks \ runtime_config :
            /\ t \notin watchers
            /\ t \notin runtime_watch_sources
            /\ ~InQueue(t, runtime_sync_queue, queued_sync_tasks)

\* The same of the runs: no run of a task starts while the completed
\* configuration does not hold it as a watch_mode task.
RemovedTaskIsNotRun ==
    [][\A t \in WatchTasks :
          (ConfigSetCompleted /\ t \notin runtime_config) =>
              ~(t \notin syncing_tasks /\ t \in syncing_tasks')]_vars

\* No enqueue, no dequeue and no purge is mid-way.
QueueAtRest ==
    /\ CommandsIdle
    /\ ~\E p \in Live : IsEnqueuer(p) \/ (p.k = "disp" /\ p.pc = "unqueue")

\* C38: whenever no enqueue, dequeue or purge is mid-way, the queue holds
\* each task id at most once and the queued set is the set of the ids in
\* the queue.
QueueMatchesQueuedSet ==
    QueueAtRest =>
        /\ \A i, j \in DOMAIN runtime_sync_queue :
              i # j => runtime_sync_queue[i] # runtime_sync_queue[j]
        /\ queued_sync_tasks = {runtime_sync_queue[i] : i \in DOMAIN runtime_sync_queue}

\* The watcher of task t has called back: the task the callback spawned
\* is about to call enqueue_runtime_sync_task.
EventDelivered(t) ==
    \E p \in Live : p.k = "enq" /\ p.o = "watch" /\ p.pc = "check" /\ p.t = t

\* A run of task t holds its slot and has not begun its scan: the scan
\* is made by execute_sync_copy.
RunAboutToScan(t) ==
    \E p \in Live : p.k = "run" /\ p.t = t /\ p.pc \in {"begin", "body"}

\* C39: under fair scheduling, every run ending, every change event
\* delivered for a watched task that stays watched is followed by a run of
\* the task whose scan starts after the event.
NoWatchChangeLost ==
    \A t \in WatchTasks :
        (EventDelivered(t) /\ t \in watchers /\ t \in runtime_watch_sources)
            ~> RunAboutToScan(t)

\* C40: once a close has removed a session, no resolve batch makes a file
\* operation for an item of that session: the batch that comes to its file
\* action finds the session closed and makes none.
ClosedSessionStaysUntouched ==
    [][\A p \in Live :
          (BatchSteps(p, "apply")
              /\ p.r.session_id \notin DOMAIN conflict_review_sessions) =>
             file_ops' = <<>>]_vars

\* The statuses that record a file action made on the target.
FileActions == {"ForceCopied", "SafeCopied"}

\* An item's status changes only from Pending.
StatusChangesFromPending ==
    \A session_id \in DOMAIN conflict_review_sessions
                        \cap DOMAIN conflict_review_sessions' :
       \A i \in DOMAIN conflict_review_sessions[session_id].items :
          LET was == conflict_review_sessions[session_id].items[i].status
              is == conflict_review_sessions'[session_id].items[i].status
          IN  is # was => was = "Pending"

\* A file action has been made for the item: its status says so, or a
\* batch holds the Ok of one and has not recorded it yet.
AlreadyApplied(session_id, item_id) ==
    \/ /\ session_id \in DOMAIN conflict_review_sessions
       /\ \E i \in DOMAIN conflict_review_sessions[session_id].items :
             /\ conflict_review_sessions[session_id].items[i].id = item_id
             /\ conflict_review_sessions[session_id].items[i].status \in FileActions
    \/ \E q \in Live :
          /\ q.k = "resolve" /\ q.pc = "record"
          /\ q.r.session_id = session_id /\ Head(q.r.rest).item_id = item_id
          /\ q.r.apply.ok /\ q.r.apply.status \in FileActions

\* No batch copies for an item whose file action has been made.
FileActionAppliedOnce ==
    \A p \in Live :
       (BatchSteps(p, "apply") /\ "copy" \in Range(file_ops')) =>
          ~AlreadyApplied(p.r.session_id, Head(p.r.rest).item_id)

\* C37: a conflict item's status changes at most once, from Pending to
\* one of ForceCopied, SafeCopied or Skipped, and its file action is
\* applied at most once, also when two resolve_conflict_items batches
\* naming the item run at once.
ItemResolvedOnce == [][StatusChangesFromPending /\ FileActionAppliedOnce]_vars

====
